---- MODULE Spec2Model ----
(***************************************************************************)
(* A model of the playwright test framework: the bounded-retry interaction *)
(* primitives (PageUtils, TestHelpers), the boolean page queries of        *)
(* BasePage, the test-data provider and the HTTP test client, the          *)
(* page-load waits and navigation, the login page object, the assertion    *)
(* helpers, the configuration snapshot, global setup and teardown, the     *)
(* BrowserManager registries and the /users routes of the sample REST API. *)
(*                                                                         *)
(* One behaviour is one worker process running one test file: the worker   *)
(* exercises one component (suite) and issues its operations one after the *)
(* other (pc).  The browser engine, the file system, the fake-data         *)
(* generator and the HTTP server are the environment: their answers are    *)
(* drawn from small sets.                                                  *)
(***************************************************************************)
EXTENDS Integers, Sequences, FiniteSets, TLC

VARIABLES
  suite,      \* the component this worker's test file exercises
  pc,         \* position of the running operation ("idle" between operations)
  call,       \* the operation in progress and its arguments
  retries,    \* safeClick/safeType: the local `retries` / `attempts`
  i,          \* safeClick/safeType: the loop index
  trace,      \* engine calls, logger calls and waits of the running operation
  errs,       \* errors caught so far by the running operation
  outcome,    \* "none" | "returned" | "threw"
  thrown,     \* the error raised to the caller when outcome = "threw"
  value,      \* the value returned to the caller when outcome = "returned"
  files,      \* the data directory: file name -> content
  data,       \* TestDataManager.data, the in-process map of loaded content
  reads,      \* readFileSync calls per file since the map was last cleared
  loads,      \* successful loadJsonData calls since the map was last cleared
  configuration, \* the configuration snapshot built when the process starts
  inflight,   \* batchRequests: the requests started and the order they complete in
  registry,   \* BrowserManager: the pages, contexts and browsers maps
  registered, \* every handle given to a register call since the last closeAll
  users       \* sample REST API: the `users` array of the server

dataVars == <<files, data, reads, loads>>
hostVars == <<registry, registered, users>>
vars == <<suite, pc, call, retries, i, trace, errs, outcome, thrown, value,
          files, data, reads, loads, configuration, inflight,
          registry, registered, users>>

----------------------------------------------------------------------------
(* Bounds of the model *)

MaxRetries == 3      \* largest explicit retries / attempts option
MaxNegRetries == 1   \* explicit retries options go down to -MaxNegRetries

(* Values of the environment *)

Selectors == {"#login-button", "#missing"}
Texts == {"testuser"}
EngineErrors == {"TimeoutError", "TargetClosedError"}

Suites == {"interaction", "page", "fixtures", "generator", "api", "global",
           "browser", "server"}

NoCall == [op |-> "none"]
NoError == [name |-> "none", at |-> 0]
NoValue == [type |-> "undefined"]

----------------------------------------------------------------------------
(* Trace events *)

AttemptEv(n) == [kind |-> "attempt", n |-> n]
EngineEv(step, sel, ok) == [kind |-> "engine", step |-> step, selector |-> sel, ok |-> ok]
LogEv(level, msg, sel, n) == [kind |-> "log", level |-> level, msg |-> msg, selector |-> sel, n |-> n]
WaitEv(ms) == [kind |-> "wait", ms |-> ms]

Count(kind) == Cardinality({k \in DOMAIN trace : trace[k].kind = kind})
NumAttempts == Count("attempt")
NumLogs == Count("log")
NumWaits == Count("wait")
NumFailures == Cardinality({k \in DOMAIN trace : trace[k].kind = "engine" /\ ~trace[k].ok})

----------------------------------------------------------------------------
(* Interaction primitives: PageUtils.safeClick, PageUtils.safeType,        *)
(* TestHelpers.safeClick                                                   *)

Primitives == {"PageUtils.safeClick", "PageUtils.safeType", "TestHelpers.safeClick"}

\* the options object: retriesSet is FALSE when the key is absent (undefined)
RetryOptions ==
  {[retriesSet |-> FALSE, retries |-> 0]} \cup
  {[retriesSet |-> TRUE, retries |-> r] : r \in (0 - MaxNegRetries)..MaxRetries}

DefaultRetries == 3

\* the other keys of the options object: timeout and force are absent ({}) or
\* have a value
DefaultTimeout == 10000
Options ==
  {[retriesSet |-> r.retriesSet, retries |-> r.retries, timeout |-> {}, force |-> {}] :
     r \in RetryOptions}
    \cup {[retriesSet |-> TRUE, retries |-> 2, timeout |-> {5000}, force |-> {TRUE}],
          [retriesSet |-> TRUE, retries |-> 1, timeout |-> {}, force |-> {FALSE}]}

\* `options?.retries || 3`: undefined and 0 are falsy, every other number is kept
PageUtilsRetries(opt) ==
  IF ~opt.retriesSet \/ opt.retries = 0 THEN DefaultRetries ELSE opt.retries

\* `const { attempts = 3 } = options`: the default replaces undefined only
TestHelpersAttempts(opt) ==
  IF ~opt.retriesSet THEN DefaultRetries ELSE opt.retries

EffectiveRetries(prim, opt) ==
  IF prim = "TestHelpers.safeClick" THEN TestHelpersAttempts(opt) ELSE PageUtilsRetries(opt)

\* the engine calls of one attempt (the try block), in order
StepsClickAtOnce(prim) ==
  CASE prim = "PageUtils.safeClick" -> <<"click">>
    [] prim = "PageUtils.safeType" -> <<"clear", "fill">>
    [] prim = "TestHelpers.safeClick" -> <<"scrollIntoViewIfNeeded", "click">>
Steps(prim) ==
  CASE prim = "PageUtils.safeClick" -> <<"click">>
    [] prim = "PageUtils.safeType" -> <<"clear", "fill">>
    [] prim = "TestHelpers.safeClick" -> <<"waitFor", "scrollIntoViewIfNeeded", "click">>

\* the logger call that ends a successful attempt
SuccessLog(prim, sel) ==
  CASE prim = "PageUtils.safeClick" -> LogEv("debug", "elementInteraction click", sel, 0)
    [] prim = "PageUtils.safeType" -> LogEv("debug", "elementInteraction type", sel, 0)
    [] prim = "TestHelpers.safeClick" -> LogEv("debug", "Successfully clicked", sel, 0)

\* `if (i === retries - 1)` in the catch block
IsLastAttemptOffByOne(idx, r) == idx = r
IsLastAttempt(idx, r) == idx = r - 1

\* the logger call of the catch block: error on the last attempt, warn otherwise
FailureLogTwice(sel, idx, r) ==
  IF IsLastAttempt(idx, r)
  THEN <<LogEv("warn", "attempt failed, retrying", sel, idx + 1),
         LogEv("error", "failed after retries", sel, r)>>
  ELSE <<LogEv("warn", "attempt failed, retrying", sel, idx + 1)>>
FailureLog(sel, idx, r) ==
  IF IsLastAttempt(idx, r)
  THEN <<LogEv("error", "failed after retries", sel, r)>>
  ELSE <<LogEv("warn", "attempt failed, retrying", sel, idx + 1)>>

\* `throw error`: the error caught in this iteration, i.e. the last one caught
ThrowFirst(caught) == caught[1]
Throw(caught) == caught[Len(caught)]

\* `waitForTimeout(1000)`: the same delay after every failed attempt
BackoffGrowing(idx) == 1000 * (idx + 1)
BackoffMs(idx) == 1000

\* `options?.timeout || 10000`
PageUtilsTimeout(opt) ==
  IF opt.timeout = {} \/ opt.timeout = {0} THEN DefaultTimeout
  ELSE CHOOSE t \in opt.timeout : TRUE
\* `const { timeout = 10000, attempts = 3, force = false } = options`
TestHelpersTimeout(opt) ==
  IF opt.timeout = {} THEN DefaultTimeout ELSE CHOOSE t \in opt.timeout : TRUE
TestHelpersForce(opt) ==
  IF opt.force = {} THEN FALSE ELSE CHOOSE f \in opt.force : TRUE

\* the options each engine call is made with: click({ timeout }) in PageUtils,
\* click({ timeout, force }) in TestHelpers; a key that is not passed is {}
StepArgs(prim, step, opt) ==
  IF prim = "TestHelpers.safeClick"
  THEN CASE step = "waitFor" -> [timeout |-> {TestHelpersTimeout(opt)}, force |-> {}]
         [] step = "scrollIntoViewIfNeeded" -> [timeout |-> {}, force |-> {}]
         [] step = "click" -> [timeout |-> {TestHelpersTimeout(opt)},
                               force |-> {TestHelpersForce(opt)}]
  ELSE [timeout |-> {PageUtilsTimeout(opt)}, force |-> {}]

CallEv(step, sel, ok, args) ==
  [kind |-> "engine", step |-> step, selector |-> sel, ok |-> ok, args |-> args]

\* the engine calls an attempt makes when its step number failAt fails
\* (failAt = 0: none fails); the steps after a failing one are not made
EngineCalls(prim, sel, failAt, opt) ==
  [k \in 1..(IF failAt = 0 THEN Len(Steps(prim)) ELSE failAt) |->
     CallEv(Steps(prim)[k], sel, k # failAt, StepArgs(prim, Steps(prim)[k], opt))]

\* where control goes when the primitive ends: to the test, or to the method
\* of the page object that called it
AfterPrimitiveNoReturn(c) == "backoff"
AfterPrimitive(c) == IF c.op = c.prim THEN "done" ELSE "caller"

\* a test calls one of the primitives
CallPrimitive ==
  /\ suite = "interaction"
  /\ pc = "idle"
  /\ \E prim \in Primitives, sel \in Selectors, text \in Texts, opt \in Options :
       /\ (opt.timeout # {} \/ opt.force # {}) => sel = "#login-button"
       /\ call' = [op |-> prim, prim |-> prim, selector |-> sel, text |-> text,
                   options |-> opt]
       /\ retries' = EffectiveRetries(prim, opt)
  /\ i' = 0
  /\ pc' = "loop"
  /\ UNCHANGED <<suite, trace, errs, outcome, thrown, value, dataVars, configuration, inflight, hostVars>>

\* `for (...; i < retries; ...)`: the loop test; falling out of the loop
\* ends the function, which then returns undefined
LoopTest ==
  /\ pc = "loop"
  /\ IF i < retries
     THEN /\ pc' = "try"
          /\ UNCHANGED outcome
     ELSE /\ pc' = AfterPrimitive(call)
          /\ outcome' = "returned"
  /\ UNCHANGED <<suite, call, retries, i, trace, errs, thrown, value, dataVars, configuration, inflight, hostVars>>

\* one attempt: the try block and the catch block up to the backoff wait
Attempt ==
  /\ pc = "try"
  /\ \E failAt \in 0..Len(Steps(call.prim)), e \in EngineErrors :
       LET calls == EngineCalls(call.prim, call.selector, failAt, call.options)
           caught == Append(errs, [name |-> e, at |-> i + 1])
       IN IF failAt = 0
          THEN /\ trace' = trace \o <<AttemptEv(i + 1)>> \o calls
                             \o <<SuccessLog(call.prim, call.selector)>>
               /\ outcome' = "returned"
               /\ pc' = AfterPrimitive(call)
               /\ UNCHANGED <<errs, thrown>>
          ELSE /\ trace' = trace \o <<AttemptEv(i + 1)>> \o calls
                             \o FailureLog(call.selector, i, retries)
               /\ errs' = caught
               /\ IF IsLastAttempt(i, retries)
                  THEN /\ thrown' = Throw(caught)
                       /\ outcome' = "threw"
                       /\ pc' = AfterPrimitive(call)
                  ELSE /\ pc' = "backoff"
                       /\ UNCHANGED <<thrown, outcome>>
  /\ UNCHANGED <<suite, call, retries, i, value, dataVars, configuration, inflight, hostVars>>

\* `await this.page.waitForTimeout(1000)` and the loop increment
Backoff ==
  /\ pc = "backoff"
  /\ trace' = Append(trace, WaitEv(BackoffMs(i)))
  /\ i' = i + 1
  /\ pc' = "loop"
  /\ UNCHANGED <<suite, call, retries, errs, outcome, thrown, value, dataVars, configuration, inflight, hostVars>>

----------------------------------------------------------------------------
(* Boolean queries of the page object: BasePage.isVisible, BasePage.isEnabled *)

Queries == {"BasePage.isVisible", "BasePage.isEnabled"}

\* what the try block executes, in order: the locator, the engine query, and
\* the logger call with `answer.toString()`
QuerySteps(op) ==
  <<"locator", IF op = "BasePage.isVisible" THEN "isVisible" ELSE "isEnabled", "elementInteraction">>

QueryEv(step, sel, ok, answer) ==
  [kind |-> "query", step |-> step, selector |-> sel, ok |-> ok, answer |-> answer]

BoolValue(b) == [type |-> "boolean", v |-> b]

\* try { ...; return answer } catch { return false }: failAt is the step of
\* the try block that raises (0: none)
QueryResultLogOutsideTry(answer, failAt, e) ==
  IF failAt = 0 THEN [outcome |-> "returned", value |-> BoolValue(answer), thrown |-> NoError]
  ELSE IF failAt = 3 THEN [outcome |-> "threw", value |-> NoValue, thrown |-> e]
  ELSE [outcome |-> "returned", value |-> BoolValue(FALSE), thrown |-> NoError]
QueryResult(answer, failAt, e) ==
  IF failAt = 0 THEN [outcome |-> "returned", value |-> BoolValue(answer), thrown |-> NoError]
  ELSE [outcome |-> "returned", value |-> BoolValue(FALSE), thrown |-> NoError]

\* isVisible(selector) / isEnabled(selector), from call to return
QueryElement ==
  /\ suite = "page"
  /\ pc = "idle"
  /\ \E op \in Queries, sel \in Selectors, answer \in BOOLEAN,
        failAt \in 0..3, name \in EngineErrors :
       LET made == IF failAt = 0 THEN 3 ELSE failAt
           res == QueryResult(answer, failAt, [name |-> name, at |-> failAt])
       IN /\ call' = [op |-> op, selector |-> sel]
          /\ trace' = [k \in 1..made |->
                         QueryEv(QuerySteps(op)[k], sel, k # failAt, answer)]
          /\ errs' = IF failAt = 0 THEN <<>> ELSE <<[name |-> name, at |-> failAt]>>
          /\ outcome' = res.outcome
          /\ value' = res.value
          /\ thrown' = res.thrown
  /\ pc' = "done"
  /\ UNCHANGED <<suite, retries, i, dataVars, configuration, inflight, hostVars>>

----------------------------------------------------------------------------
(* Fixture files: TestDataManager.loadJsonData, saveDataToFile, clearCache *)

MaxLoads == 2     \* loadJsonData calls between two clearCache calls

FileNames == {"users.json", "test-credentials.json"}
Contents == {"v1", "v2"}
FileStates == Contents \cup {"absent", "malformed"}

DataLogEv(level, msg, fileName) ==
  [kind |-> "log", level |-> level, msg |-> msg, fileName |-> fileName]

JsonValue(c) == [type |-> "json", content |-> c]

\* loadJsonData(fileName), from call to return: readFileSync, JSON.parse and
\* data.set, whatever TestDataManager.data already holds for the name
LoadJsonData ==
  /\ suite = "fixtures"
  /\ pc = "idle"
  /\ Len(loads) < MaxLoads
  /\ \E f \in FileNames :
       /\ call' = [op |-> "TestDataManager.loadJsonData", fileName |-> f]
       /\ reads' = [reads EXCEPT ![f] = @ + 1]
       /\ IF files[f] \in Contents
          THEN /\ data' = [data EXCEPT ![f] = files[f]]
               /\ loads' = Append(loads, [fileName |-> f, ok |-> TRUE, content |-> files[f]])
               /\ trace' = <<DataLogEv("debug", "JSON loaded", f)>>
               /\ outcome' = "returned"
               /\ value' = JsonValue(files[f])
               /\ UNCHANGED <<errs, thrown>>
          ELSE LET e == [name |-> IF files[f] = "absent" THEN "ENOENT" ELSE "SyntaxError",
                         at |-> 0]
               IN /\ loads' = Append(loads, [fileName |-> f, ok |-> FALSE, content |-> "none"])
                  /\ trace' = <<DataLogEv("error", "Failed to load JSON data", f)>>
                  /\ errs' = <<e>>
                  /\ outcome' = "threw"
                  /\ thrown' = e
                  /\ UNCHANGED <<data, value>>
  /\ pc' = "done"
  /\ UNCHANGED <<suite, retries, i, files, configuration, inflight, hostVars>>

\* saveDataToFile(data, fileName, 'json') on a writable data directory
SaveDataToFile ==
  /\ suite = "fixtures"
  /\ pc = "idle"
  /\ \E f \in FileNames, c \in Contents :
       /\ call' = [op |-> "TestDataManager.saveDataToFile", fileName |-> f, content |-> c]
       /\ files' = [files EXCEPT ![f] = c]
       /\ trace' = <<DataLogEv("debug", "Data saved to file", f)>>
  /\ outcome' = "returned"
  /\ pc' = "done"
  /\ UNCHANGED <<suite, retries, i, errs, thrown, value, data, reads, loads, configuration, inflight, hostVars>>

\* clearCache()
ClearCache ==
  /\ suite = "fixtures"
  /\ pc = "idle"
  /\ call' = [op |-> "TestDataManager.clearCache"]
  /\ data' = [f \in FileNames |-> "unset"]
  /\ reads' = [f \in FileNames |-> 0]
  /\ loads' = <<>>
  /\ trace' = <<[kind |-> "log", level |-> "info", msg |-> "Test data cache cleared"]>>
  /\ outcome' = "returned"
  /\ pc' = "done"
  /\ UNCHANGED <<suite, retries, i, errs, thrown, value, files, configuration, inflight, hostVars>>

----------------------------------------------------------------------------
(* Generated records: TestDataManager.generateUserData, generateProductData, *)
(* generateOrderData.  Amounts are integers, in 1/10000 of the currency     *)
(* unit, so that price * quantity, the 8% tax and the fees are exact.       *)

MaxCount == 3     \* largest count argument

Kinds == {"user", "product", "order"}
Ids == {"uuid-1", "uuid-2"}
Prices == {25000}             \* faker.commerce.price(): 2.50
ShippingFees == {0, 250000}   \* faker.number.float({min: 0, max: 25}): 0.00, 25.00
ItemCounts == {1, 2}          \* faker.number.int({min: 1, max: 5})
Quantities == {1, 3}          \* faker.number.int({min: 1, max: 3})

Generator(kind) ==
  CASE kind = "user" -> "TestDataManager.generateUserData"
    [] kind = "product" -> "TestDataManager.generateProductData"
    [] kind = "order" -> "TestDataManager.generateOrderData"
Generators == {Generator(kind) : kind \in Kinds}

\* one line item of an order
Item(price, quantity) == [price |-> price, quantity |-> quantity, total |-> price * quantity]
ItemLists ==
  UNION {[1..n -> {Item(p, q) : p \in Prices, q \in Quantities}] : n \in ItemCounts}

RECURSIVE SumTotals(_)
\* `total += itemTotal` over the items
SumTotals(items) ==
  IF items = <<>> THEN 0 ELSE items[1].total + SumTotals(Tail(items))

\* the order literal: `shipping` and the fee inside `total` are two separate
\* faker.number.float draws, fee1 and fee2
Order(items, fee1, fee2) ==
  LET total == SumTotals(items)
  IN [kind |-> "order", items |-> items,
      subtotal |-> total,
      tax |-> (total * 8) \div 100,
      shipping |-> fee1,
      total |-> (total * 108) \div 100 + fee2]

\* the records one loop iteration can push
Records(kind) ==
  CASE kind = "user" -> {[kind |-> "user", id |-> id] : id \in Ids}
    [] kind = "product" -> {[kind |-> "product", id |-> id, price |-> p] : id \in Ids, p \in Prices}
    [] kind = "order" ->
         {Order(items, fee1, fee2) : items \in ItemLists, fee1 \in ShippingFees, fee2 \in ShippingFees}

RecordValue(r) == [type |-> "record", rec |-> r]
ArrayValue(rs) == [type |-> "array", items |-> rs]

\* `return count === 1 ? users[0] : users`
GenerateResultAlwaysArray(count, pushed) == ArrayValue(pushed)
GenerateResult(count, pushed) ==
  IF count = 1 THEN RecordValue(pushed[1]) ELSE ArrayValue(pushed)

\* generateUserData(count) / generateProductData(count) / generateOrderData(count)
Generate ==
  /\ suite = "generator"
  /\ pc = "idle"
  /\ \E kind \in Kinds, count \in 0..MaxCount :
       \E pushed \in [1..count -> Records(kind)] :
         /\ call' = [op |-> Generator(kind), kind |-> kind, count |-> count, pushed |-> pushed]
         /\ trace' = <<[kind |-> "log", level |-> "debug", msg |-> "Fake data generated",
                        count |-> count]>>
         /\ value' = GenerateResult(count, pushed)
  /\ outcome' = "returned"
  /\ pc' = "done"
  /\ UNCHANGED <<suite, retries, i, errs, thrown, dataVars, configuration, inflight, hostVars>>

----------------------------------------------------------------------------
(* HTTP test client: ApiClient.get / post / put / patch / delete *)

Verbs == {"get", "post", "put", "patch", "delete"}
Paths == {"/users", "/users/999999"}
BaseURL == "http://localhost:3001"
Statuses == {200, 404, 500}
Bodies == {"body-1", "body-2"}

\* what comes back for a request: a response of the server, or none at all
ServerAnswers ==
  {[kind |-> "response", status |-> st, data |-> b] : st \in Statuses, b \in Bodies}
    \cup {[kind |-> "none"]}

Upper(verb) ==
  CASE verb = "get" -> "GET" [] verb = "post" -> "POST" [] verb = "put" -> "PUT"
    [] verb = "patch" -> "PATCH" [] verb = "delete" -> "DELETE"

ApiLogEv(level, msg, method, url, status) ==
  [kind |-> "log", level |-> level, msg |-> msg, method |-> method, url |-> url,
   status |-> status]
HttpEv(config, answer) == [kind |-> "http", config |-> config, answer |-> answer]

\* the request config of this.client.<verb>(url, ...) on the instance of
\* createAxiosInstance: the url as passed, the method in lower case
RequestConfig(verb, url) == [method |-> verb, url |-> url, baseURL |-> BaseURL]

\* the instance settles the request: a 2xx response resolves; any other
\* response, or none, rejects with an axios error.  An optional member is a
\* set with at most one element.
Settle(config, answer) ==
  IF answer.kind = "response"
  THEN LET response == [status |-> answer.status, data |-> answer.data, config |-> config]
       IN IF answer.status >= 200 /\ answer.status < 300
          THEN [resolved |-> TRUE, response |-> response]
          ELSE [resolved |-> FALSE,
                error |-> [isAxiosError |-> TRUE, message |-> "Request failed with status code",
                           response |-> {response}, config |-> {config}]]
  ELSE [resolved |-> FALSE,
        error |-> [isAxiosError |-> TRUE, message |-> "Network Error",
                   response |-> {}, config |-> {config}]]

\* the interceptors: apiRequest on the request, apiRequest with the status on
\* a response, logger.error on a rejection (which is rejected again unchanged)
InterceptorLogs(config, settled) ==
  <<ApiLogEv("info", "API Request", Upper(config.method), config.url, {})>>
    \o (IF settled.resolved
        THEN <<ApiLogEv("info", "API Request", Upper(config.method), config.url,
                        {settled.response.status})>>
        ELSE <<ApiLogEv("error", "API Error", Upper(config.method), config.url,
                        {r.status : r \in settled.error.response})>>)

\* handleError(error)
HandleErrorUpperMethod(error) ==
  IF error.isAxiosError
  THEN [name |-> "Error", message |-> <<"API Error: ", error.message>>,
        status |-> {r.status : r \in error.response},
        data |-> {r.data : r \in error.response},
        url |-> {c.url : c \in error.config},
        method |-> {Upper(c.method) : c \in error.config}]
  ELSE error
HandleError(error) ==
  IF error.isAxiosError
  THEN [name |-> "Error", message |-> <<"API Error: ", error.message>>,
        status |-> {r.status : r \in error.response},
        data |-> {r.data : r \in error.response},
        url |-> {c.url : c \in error.config},
        method |-> {c.method : c \in error.config}]
  ELSE error

\* get / post / put / patch / delete: try { response = await client.verb(url);
\* logResponseDetails(response); return response } catch { throw handleError }
Request(verb, url, answer) ==
  LET config == RequestConfig(verb, url)
      settled == Settle(config, answer)
      logs == <<HttpEv(config, answer)>> \o InterceptorLogs(config, settled)
  IN IF settled.resolved
     THEN [outcome |-> "returned",
           value |-> [type |-> "response", response |-> settled.response],
           thrown |-> NoError,
           trace |-> logs \o <<ApiLogEv("debug", "API Response Details", Upper(verb), url,
                                        {settled.response.status})>>]
     ELSE [outcome |-> "threw", value |-> NoValue,
           thrown |-> HandleError(settled.error),
           trace |-> logs]

\* a test calls one verb of the client
ApiRequest ==
  /\ suite = "api"
  /\ pc = "idle"
  /\ \E verb \in Verbs, url \in Paths, answer \in ServerAnswers :
       LET res == Request(verb, url, answer)
       IN /\ call' = [op |-> "ApiClient.request", verb |-> verb, url |-> url]
          /\ trace' = res.trace
          /\ outcome' = res.outcome
          /\ value' = res.value
          /\ thrown' = res.thrown
  /\ pc' = "done"
  /\ UNCHANGED <<suite, retries, i, errs, dataVars, configuration, inflight, hostVars>>

----------------------------------------------------------------------------
(* Configuration snapshot: Config.loadConfig, Config.get, Config.validateConfig *)

\* JavaScript values of the settings
Num(n) == [t |-> "number", n |-> n, s |-> ""]
Str(x) == [t |-> "string", n |-> 0, s |-> x]
Bool(b) == [t |-> "boolean", n |-> IF b THEN 1 ELSE 0, s |-> ""]
NaN == [t |-> "NaN", n |-> 0, s |-> ""]
Undefined == [t |-> "undefined", n |-> 0, s |-> ""]
Truthy(v) ==
  CASE v.t = "number" -> v.n # 0
    [] v.t = "string" -> v.s # ""
    [] v.t = "boolean" -> v.n = 1
    [] OTHER -> FALSE

\* process.env: a variable is unset ({}) or set to a string
Environs ==
  [NODE_ENV : {{}, {"staging"}, {"production"}, {"test"}},
   BASE_URL : {{}, {""}, {"https://app.test"}},
   BROWSER_TIMEOUT : {{}, {"0"}, {"30000"}},
   TEST_TIMEOUT : {{}, {"abc"}}]
DefaultEnviron ==
  [NODE_ENV |-> {}, BASE_URL |-> {}, BROWSER_TIMEOUT |-> {}, TEST_TIMEOUT |-> {}]

\* process.env.X || dflt
OrDefault(var, dflt) == IF var = {} \/ var = {""} THEN dflt ELSE CHOOSE x \in var : TRUE
ParseInt(x) ==
  CASE x = "0" -> Num(0) [] x = "30000" -> Num(30000) [] x = "60000" -> Num(60000)
    [] OTHER -> NaN

BaseConfig(env) ==
  [environment |-> Str(OrDefault(env.NODE_ENV, "development")),
   browser |-> [headless |-> Bool(FALSE), slowMo |-> Num(0),
                timeout |-> ParseInt(OrDefault(env.BROWSER_TIMEOUT, "60000")),
                viewport |-> Str("1920x1080")],
   test |-> [workers |-> Num(4), retries |-> Num(2),
             timeout |-> ParseInt(OrDefault(env.TEST_TIMEOUT, "60000"))],
   urls |-> [base |-> Str(OrDefault(env.BASE_URL, "https://example.com")),
             api |-> Str("https://api.example.com")]]

\* envConfigs[env]: the override table of the tier, none for another NODE_ENV
EnvConfigs(env) ==
  LET tier == OrDefault(env.NODE_ENV, "development")
  IN CASE tier = "development" ->
            [urls |-> [base |-> Str("http://localhost:3000"),
                       api |-> Str("http://localhost:3001")],
             browser |-> [headless |-> Bool(FALSE), slowMo |-> Num(100)]]
       [] tier = "staging" ->
            [urls |-> [base |-> Str("https://staging.example.com"),
                       api |-> Str("https://staging-api.example.com")]]
       [] tier = "production" ->
            [urls |-> [base |-> Str("https://example.com"),
                       api |-> Str("https://api.example.com")],
             browser |-> [headless |-> Bool(TRUE), slowMo |-> Num(0)],
             test |-> [retries |-> Num(3)]]
       [] OTHER -> <<>>

\* { ...baseConfig, ...envSpecificConfig }: a top-level key of the override
\* table replaces the whole value of that key
LoadConfig(env) ==
  LET base == BaseConfig(env)
      over == EnvConfigs(env)
  IN [key \in DOMAIN base |-> IF key \in DOMAIN over THEN over[key] ELSE base[key]]

\* get('section.name'): getNestedProperty with o?.[i]
Get(cfg, section, name) ==
  IF section \in DOMAIN cfg /\ name \in DOMAIN cfg[section]
  THEN cfg[section][name]
  ELSE Undefined

Required == {<<"urls", "base">>, <<"browser", "timeout">>, <<"test", "timeout">>}
Missing(cfg) == {key \in Required : ~Truthy(Get(cfg, key[1], key[2]))}
\* validateConfig(): false when a required setting is missing
ValidateConfig(cfg) == Missing(cfg) = {}

----------------------------------------------------------------------------
(* HTTP test client: uploadFile, downloadFile, healthCheck *)

FileArgs == {"buffer", "path-readable", "path-missing"}
BufferValue(b) == [type |-> "buffer", data |-> b]
FsError == [isAxiosError |-> FALSE, name |-> "Error", message |-> "ENOENT"]

\* uploadFile: the form is built inside the try block (readFileSync of a path
\* that is a string), then client.post, logResponseDetails, return; the catch
\* clause throws handleError(error)
UploadFile(url, file, answer) ==
  IF file = "path-missing"
  THEN [outcome |-> "threw", value |-> NoValue, thrown |-> HandleError(FsError),
        trace |-> <<>>]
  ELSE Request("post", url, answer)

\* downloadFile: client.get with responseType arraybuffer, logger.info, return
\* Buffer.from(response.data); the catch clause throws handleError(error)
DownloadFileEmptyOnError(url, answer) ==
  LET r == Request("get", url, answer)
      sent == SubSeq(r.trace, 1, 3)
  IN IF r.outcome = "returned"
     THEN [outcome |-> "returned", value |-> BufferValue({answer.data}), thrown |-> NoError,
           trace |-> sent \o <<ApiLogEv("info", "File downloaded", "GET", url, {})>>]
     ELSE [outcome |-> "returned", value |-> BufferValue({}), thrown |-> NoError,
           trace |-> sent]
DownloadFile(url, answer) ==
  LET r == Request("get", url, answer)
      sent == SubSeq(r.trace, 1, 3)
  IN IF r.outcome = "returned"
     THEN [outcome |-> "returned", value |-> BufferValue({answer.data}), thrown |-> NoError,
           trace |-> sent \o <<ApiLogEv("info", "File downloaded", "GET", url, {})>>]
     ELSE [outcome |-> "threw", value |-> NoValue, thrown |-> r.thrown, trace |-> sent]

\* healthCheck: try { response = await this.get(endpoint); isHealthy = 2xx;
\* logger.info; return isHealthy } catch { logger.error; return false }
HealthCheck(endpoint, answer) ==
  LET r == Request("get", endpoint, answer)
  IN IF r.outcome = "returned"
     THEN LET st == r.value.response.status
          IN [outcome |-> "returned", value |-> BoolValue(st >= 200 /\ st < 300),
              thrown |-> NoError,
              trace |-> r.trace \o <<ApiLogEv("info", "Health check", "GET", endpoint, {st})>>]
     ELSE [outcome |-> "returned", value |-> BoolValue(FALSE), thrown |-> NoError,
           trace |-> r.trace \o <<ApiLogEv("error", "Health check failed", "GET", endpoint, {})>>]

Endpoints == {"/health"}
FileOps == {"ApiClient.uploadFile", "ApiClient.downloadFile", "ApiClient.healthCheck"}

\* a test calls one of the three convenience operations of the client
ApiConvenience ==
  /\ suite = "api"
  /\ pc = "idle"
  /\ \E op \in FileOps, url \in Paths \cup Endpoints, file \in FileArgs,
        answer \in ServerAnswers :
       /\ (op = "ApiClient.healthCheck") = (url \in Endpoints)
       /\ op # "ApiClient.uploadFile" => file = "buffer"
       /\ LET res == CASE op = "ApiClient.uploadFile" -> UploadFile(url, file, answer)
                       [] op = "ApiClient.downloadFile" -> DownloadFile(url, answer)
                       [] op = "ApiClient.healthCheck" -> HealthCheck(url, answer)
          IN /\ call' = [op |-> op, url |-> url, file |-> file, answer |-> answer]
             /\ trace' = res.trace
             /\ outcome' = res.outcome
             /\ value' = res.value
             /\ thrown' = res.thrown
  /\ pc' = "done"
  /\ UNCHANGED <<suite, retries, i, errs, dataVars, configuration, inflight, hostVars>>

----------------------------------------------------------------------------
(* HTTP test client: batchRequests *)

MaxBatch == 3     \* largest number of thunks given to batchRequests

\* every thunk is `() => apiClient.get('/users')`; what the server answers to
\* each of them
BatchAnswers ==
  {[kind |-> "response", status |-> 200, data |-> "body-1"],
   [kind |-> "response", status |-> 200, data |-> "body-2"],
   [kind |-> "response", status |-> 500, data |-> "body-1"],
   [kind |-> "none"]}
BatchUrl == "/users"
NoBatch == [answers |-> <<>>, order |-> <<>>]

\* the settled promise of thunk k
Thunk(answers, k) == Request("get", BatchUrl, answers[k])
Rejected(answers, k) == Thunk(answers, k).outcome = "threw"
Completed(order) == {order[j] : j \in DOMAIN order}

\* Promise.all over the promises of the thunks, after the completions of
\* `order`: rejected with the reason of the first promise to reject, fulfilled
\* with the values by index once every promise is fulfilled, pending otherwise
PromiseAllCompletionOrder(answers, order) ==
  LET rejections == {j \in DOMAIN order : Rejected(answers, order[j])}
  IN IF rejections # {}
     THEN LET first == CHOOSE j \in rejections : \A l \in rejections : j <= l
          IN [state |-> "rejected", reason |-> Thunk(answers, order[first]).thrown]
     ELSE IF Len(order) = Len(answers)
     THEN [state |-> "fulfilled",
           values |-> [k \in DOMAIN answers |-> Thunk(answers, order[k]).value.response]]
     ELSE [state |-> "pending"]
PromiseAll(answers, order) ==
  LET rejections == {j \in DOMAIN order : Rejected(answers, order[j])}
  IN IF rejections # {}
     THEN LET first == CHOOSE j \in rejections : \A l \in rejections : j <= l
          IN [state |-> "rejected", reason |-> Thunk(answers, order[first]).thrown]
     ELSE IF Len(order) = Len(answers)
     THEN [state |-> "fulfilled",
           values |-> [k \in DOMAIN answers |-> Thunk(answers, k).value.response]]
     ELSE [state |-> "pending"]

\* the events of thunk k when it is called (the request goes out) and when
\* its request completes (the interceptor and logResponseDetails)
StartEvents(answers, k) == SubSeq(Thunk(answers, k).trace, 1, 2)
CompleteEvents(answers, k) ==
  SubSeq(Thunk(answers, k).trace, 3, Len(Thunk(answers, k).trace))
RECURSIVE StartAllUntilFailure(_, _)
StartAllUntilFailure(answers, k) ==
  IF k > Len(answers) THEN <<>>
  ELSE StartEvents(answers, k)
         \o (IF Rejected(answers, k) THEN <<>> ELSE StartAllUntilFailure(answers, k + 1))
RECURSIVE StartAll(_, _)
StartAll(answers, k) ==
  IF k > Len(answers) THEN <<>> ELSE StartEvents(answers, k) \o StartAll(answers, k + 1)

BatchLogEv(level, msg, count) ==
  [kind |-> "log", level |-> level, msg |-> msg, count |-> count]

\* what batchRequests does once the aggregate promise has the given state:
\* try { responses = await Promise.all(...); logger.info; return responses }
\* catch { logger.error; throw error }
BatchSettledSwallow(all) ==
  CASE all.state = "fulfilled" ->
         [pc |-> "done", outcome |-> "returned", thrown |-> NoError,
          value |-> [type |-> "responses", items |-> all.values],
          logs |-> <<BatchLogEv("info", "Batch requests completed", {Len(all.values)})>>]
    [] all.state = "rejected" ->
         [pc |-> "done", outcome |-> "returned", thrown |-> NoError,
          value |-> [type |-> "responses", items |-> <<>>],
          logs |-> <<BatchLogEv("error", "Batch requests failed:", {})>>]
    [] all.state = "pending" ->
         [pc |-> "batch", outcome |-> "none", thrown |-> NoError, value |-> NoValue,
          logs |-> <<>>]
BatchSettled(all) ==
  CASE all.state = "fulfilled" ->
         [pc |-> "done", outcome |-> "returned", thrown |-> NoError,
          value |-> [type |-> "responses", items |-> all.values],
          logs |-> <<BatchLogEv("info", "Batch requests completed", {Len(all.values)})>>]
    [] all.state = "rejected" ->
         [pc |-> "done", outcome |-> "threw", thrown |-> all.reason, value |-> NoValue,
          logs |-> <<BatchLogEv("error", "Batch requests failed:", {})>>]
    [] all.state = "pending" ->
         [pc |-> "batch", outcome |-> "none", thrown |-> NoError, value |-> NoValue,
          logs |-> <<>>]

\* batchRequests(requests): requests.map(request => request()) calls every
\* thunk, in input order, before anything is awaited
BatchRequests ==
  /\ suite = "api"
  /\ pc = "idle"
  /\ \E n \in 0..MaxBatch : \E answers \in [1..n -> BatchAnswers] :
       LET settled == BatchSettled(PromiseAll(answers, <<>>))
       IN /\ call' = [op |-> "ApiClient.batchRequests", n |-> n]
          /\ inflight' = [answers |-> answers, order |-> <<>>]
          /\ trace' = StartAll(answers, 1) \o settled.logs
          /\ pc' = settled.pc
          /\ outcome' = settled.outcome
          /\ thrown' = settled.thrown
          /\ value' = settled.value
  /\ UNCHANGED <<suite, retries, i, errs, dataVars, configuration, hostVars>>

\* one request in flight completes, in any order; the aggregate promise
\* settles once, and requests still in flight after a rejection complete later
BatchComplete ==
  /\ call.op = "ApiClient.batchRequests"
  /\ pc \in {"batch", "done"}
  /\ \E k \in DOMAIN inflight.answers \ Completed(inflight.order) :
       LET order == Append(inflight.order, k)
           settled == BatchSettled(PromiseAll(inflight.answers, order))
       IN /\ inflight' = [inflight EXCEPT !.order = order]
          /\ IF pc = "batch"
             THEN /\ trace' = trace \o CompleteEvents(inflight.answers, k) \o settled.logs
                  /\ pc' = settled.pc
                  /\ outcome' = settled.outcome
                  /\ thrown' = settled.thrown
                  /\ value' = settled.value
             ELSE /\ trace' = trace \o CompleteEvents(inflight.answers, k)
                  /\ UNCHANGED <<pc, outcome, thrown, value>>
  /\ UNCHANGED <<suite, call, retries, i, errs, dataVars, configuration, hostVars>>

----------------------------------------------------------------------------
(* Page-load waits and navigation: PageUtils.waitForPageLoad,              *)
(* TestHelpers.waitForPageLoad, BasePage.goto / refresh / goBack /         *)
(* goForward / waitForPageLoad                                             *)

LoadStateEv(state, reached) == [kind |-> "loadState", state |-> state, ok |-> reached]
NavEv(step, ok) == [kind |-> "navigation", step |-> step, ok |-> ok]
StepLogEv(event, name, success) ==
  [kind |-> "log", level |-> "debug", msg |-> event, stepName |-> name, success |-> success]
PageLogEv(level, msg) == [kind |-> "log", level |-> level, msg |-> msg]
TimeoutError(state) == [name |-> "TimeoutError", at |-> state]

\* PageUtils.waitForPageLoad: try { await networkidle; await domcontentloaded;
\* logger.stepEnd('Page fully loaded', true) } catch { logger.error; throw }
PageUtilsWaitForPageLoad(idle, dom) ==
  IF ~idle
  THEN [outcome |-> "threw", thrown |-> TimeoutError("networkidle"),
        trace |-> <<LoadStateEv("networkidle", FALSE), PageLogEv("error", "Page load timeout")>>]
  ELSE IF ~dom
  THEN [outcome |-> "threw", thrown |-> TimeoutError("domcontentloaded"),
        trace |-> <<LoadStateEv("networkidle", TRUE), LoadStateEv("domcontentloaded", FALSE),
                    PageLogEv("error", "Page load timeout")>>]
  ELSE [outcome |-> "returned", thrown |-> NoError,
        trace |-> <<LoadStateEv("networkidle", TRUE), LoadStateEv("domcontentloaded", TRUE),
                    StepLogEv("STEP_END", "Page fully loaded", TRUE)>>]

\* TestHelpers.waitForPageLoad: try { await Promise.all([load, domcontentloaded,
\* networkidle.catch(() => logger.warn)]); logger.debug } catch { logger.warn }
\* The three waits are started together; the networkidle wait has half the
\* timeout, so its warning comes first.
TestHelpersWaitForPageLoad(load, dom, idle) ==
  LET started == <<LoadStateEv("load", load), LoadStateEv("domcontentloaded", dom),
                   LoadStateEv("networkidle", idle)>>
      idleLeg == IF idle THEN <<>>
                 ELSE <<PageLogEv("warn", "Network idle timeout, but continuing...")>>
  IN [outcome |-> "returned", thrown |-> NoError,
      trace |-> started \o idleLeg \o
                (IF load /\ dom
                 THEN <<PageLogEv("debug", "Page loaded completely")>>
                 ELSE <<PageLogEv("warn", "Page load timeout, but continuing...")>>)]

\* the catch clause of a page-object method:
\* catch (error) { logger.stepEnd(..., false); throw error; }
RethrowWrapped(error) == [name |-> "Error", at |-> error.at]
Rethrow(error) == error

NavOps == {"BasePage.goto", "BasePage.refresh", "BasePage.goBack", "BasePage.goForward"}
PageWaitOps == NavOps \cup {"BasePage.waitForPageLoad"}
\* the engine call each operation makes before the wait
NavStep(op) ==
  CASE op = "BasePage.goto" -> "goto" [] op = "BasePage.refresh" -> "reload"
    [] op = "BasePage.goBack" -> "goBack" [] op = "BasePage.goForward" -> "goForward"
StepName(op) ==
  CASE op = "BasePage.goto" -> "Navigate to" [] op = "BasePage.refresh" -> "Refresh page"
    [] op = "BasePage.goBack" -> "Navigate back" [] op = "BasePage.goForward" -> "Navigate forward"

\* goto / refresh / goBack / goForward: logger.stepStart; try { engine call;
\* waitForPageLoad; (goto: title, pageNavigation;) stepEnd(true) }
\* catch { stepEnd(false); throw error }
Navigation(op, navOk, idle, dom, e) ==
  LET wait == PageUtilsWaitForPageLoad(idle, dom)
      start == <<StepLogEv("STEP_START", StepName(op), TRUE)>>
      failed == <<StepLogEv("STEP_END", StepName(op), FALSE)>>
  IN IF ~navOk
     THEN [outcome |-> "threw", thrown |-> Rethrow([name |-> e, at |-> NavStep(op)]),
           trace |-> start \o <<NavEv(NavStep(op), FALSE)>> \o failed]
     ELSE IF wait.outcome = "threw"
     THEN [outcome |-> "threw", thrown |-> Rethrow(wait.thrown),
           trace |-> start \o <<NavEv(NavStep(op), TRUE)>> \o wait.trace \o failed]
     ELSE [outcome |-> "returned", thrown |-> NoError,
           trace |-> start \o <<NavEv(NavStep(op), TRUE)>> \o wait.trace
                     \o (IF op = "BasePage.goto"
                         THEN <<NavEv("title", TRUE), PageLogEv("info", "Page Navigation")>>
                         ELSE <<>>)
                     \o <<StepLogEv("STEP_END", StepName(op), TRUE)>>]

\* a test navigates through the page object, or waits for the page to load
Navigate ==
  /\ suite = "page"
  /\ pc = "idle"
  /\ \E op \in PageWaitOps, navOk \in BOOLEAN, idle \in BOOLEAN, dom \in BOOLEAN,
        e \in EngineErrors :
       /\ op = "BasePage.waitForPageLoad" => navOk
       /\ navOk => e = "TimeoutError"
       /\ LET res == IF op \in NavOps THEN Navigation(op, navOk, idle, dom, e)
                     ELSE PageUtilsWaitForPageLoad(idle, dom)
          IN /\ call' = [op |-> op, navOk |-> navOk, idle |-> idle, dom |-> dom, e |-> e]
             /\ trace' = res.trace
             /\ outcome' = res.outcome
             /\ thrown' = res.thrown
  /\ value' = NoValue
  /\ pc' = "done"
  /\ UNCHANGED <<suite, retries, i, errs, dataVars, configuration, inflight, hostVars>>

\* a test waits for the page with the helper
WaitForPageLoad ==
  /\ suite = "page"
  /\ pc = "idle"
  /\ \E load \in BOOLEAN, dom \in BOOLEAN, idle \in BOOLEAN :
       LET res == TestHelpersWaitForPageLoad(load, dom, idle)
       IN /\ call' = [op |-> "TestHelpers.waitForPageLoad", load |-> load, dom |-> dom,
                      idle |-> idle]
          /\ trace' = res.trace
          /\ outcome' = res.outcome
          /\ thrown' = res.thrown
  /\ value' = NoValue
  /\ pc' = "done"
  /\ UNCHANGED <<suite, retries, i, errs, dataVars, configuration, inflight, hostVars>>

----------------------------------------------------------------------------
(* Login page object: LoginPage.login *)

StepEv(name, ok) == [kind |-> "step", name |-> name, ok |-> ok]
Urls == {"/login", "/dashboard"}     \* where the page is after the submit

\* the page-object calls of login, in order: enterUsername, enterPassword,
\* checkRememberMe (isChecked, then a click when unchecked) when rememberMe is
\* set, clickLoginButton
LoginSteps(rememberMe, checked) ==
  <<"type-username", "type-password">>
    \o (IF rememberMe
        THEN <<"isChecked-remember-me">>
               \o (IF checked THEN <<>> ELSE <<"click-remember-me">>)
        ELSE <<>>)
    \o <<"click-login-button">>

\* the calls made when the call number failAt fails (0: none fails): every
\* call is awaited, and a failed call ends login
RECURSIVE PerformedNotAwaited(_, _, _)
PerformedNotAwaited(steps, failAt, k) ==
  IF k > Len(steps) THEN <<>>
  ELSE <<StepEv(steps[k], k # failAt)>> \o PerformedNotAwaited(steps, failAt, k + 1)
RECURSIVE Performed(_, _, _)
Performed(steps, failAt, k) ==
  IF k > Len(steps) THEN <<>>
  ELSE IF k = failAt THEN <<StepEv(steps[k], FALSE)>>
  ELSE <<StepEv(steps[k], TRUE)>> \o Performed(steps, failAt, k + 1)

\* how login ends: the error of the failed call propagates; otherwise login
\* returns, wherever the page is
LoginResultAssertsDashboard(steps, failAt, url, e) ==
  IF failAt # 0
  THEN [outcome |-> "threw", thrown |-> [name |-> e, at |-> steps[failAt]]]
  ELSE IF url # "/dashboard"
  THEN [outcome |-> "threw", thrown |-> [name |-> "AssertionError", at |-> url]]
  ELSE [outcome |-> "returned", thrown |-> NoError]
LoginResult(steps, failAt, url, e) ==
  IF failAt # 0
  THEN [outcome |-> "threw", thrown |-> [name |-> e, at |-> steps[failAt]]]
  ELSE [outcome |-> "returned", thrown |-> NoError]

\* a test logs in through the page object
Login ==
  /\ suite = "page"
  /\ pc = "idle"
  /\ \E rememberMe \in BOOLEAN, checked \in BOOLEAN, url \in Urls, e \in EngineErrors :
       LET steps == LoginSteps(rememberMe, checked)
       IN \E failAt \in 0..Len(steps) :
            LET res == LoginResult(steps, failAt, url, e)
            IN /\ ~rememberMe => ~checked
               /\ failAt = 0 => e = "TimeoutError"
               /\ (failAt # 0 /\ steps[failAt] = "isChecked-remember-me") => ~checked
               /\ failAt # 0 => url = "/login"
               /\ call' = [op |-> "LoginPage.login", rememberMe |-> rememberMe,
                           checked |-> checked, failAt |-> failAt, url |-> url]
               /\ trace' = Performed(steps, failAt, 1)
               /\ outcome' = res.outcome
               /\ thrown' = res.thrown
  /\ value' = NoValue
  /\ pc' = "done"
  /\ UNCHANGED <<suite, retries, i, errs, dataVars, configuration, inflight, hostVars>>

----------------------------------------------------------------------------
(* Global setup and teardown: globalSetup, globalTeardown *)

SetupSteps ==
  <<"validateConfiguration", "setupTestDirectories", "initializeTestData",
    "setupEnvironment", "performHealthChecks">>
\* the setup steps whose failure leaves the step as an exception: all but
\* performHealthChecks, whose catch clause only logs
SetupFatalWithoutValidation ==
  {"setupTestDirectories", "initializeTestData", "setupEnvironment"}
SetupFatal ==
  {"validateConfiguration", "setupTestDirectories", "initializeTestData", "setupEnvironment"}

\* archiveTestResults and sendNotifications return at once unless their
\* environment flag is 'true'
TeardownSteps(archive, notify) ==
  <<"closeBrowserResources", "cleanupTestData", "generateFinalReports", "cleanupTempFiles">>
    \o (IF archive THEN <<"archiveTestResults">> ELSE <<>>)
    \o (IF notify THEN <<"sendNotifications">> ELSE <<>>)
\* the teardown steps whose failure leaves the step as an exception: none,
\* every step catches and logs
TeardownFatalReports == {"generateFinalReports"}
TeardownFatal == {}

Range(seq) == {seq[k] : k \in DOMAIN seq}

\* the steps are awaited one after the other; an exception leaving a step
\* ends the try block
RECURSIVE RunSteps(_, _, _)
RunSteps(steps, failing, fatal) ==
  IF steps = <<>> THEN <<>>
  ELSE LET step == Head(steps)
       IN IF step \in failing
          THEN <<StepEv(step, FALSE)>>
                 \o (IF step \in fatal THEN <<>> ELSE RunSteps(Tail(steps), failing, fatal))
          ELSE <<StepEv(step, TRUE)>> \o RunSteps(Tail(steps), failing, fatal)

\* the exception that left the try block, if any
Escaped(run, fatal) == {k \in DOMAIN run : ~run[k].ok /\ run[k].name \in fatal}
StepError(step) ==
  [name |-> "Error", at |-> step,
   message |-> IF step = "validateConfiguration" THEN "Configuration validation failed"
               ELSE "step failed"]

\* globalSetup: try { the five steps; logger.info } catch { logger.error; throw }
GlobalSetup ==
  /\ suite = "global"
  /\ pc = "idle"
  /\ \E failing \in SUBSET (Range(SetupSteps) \ {"validateConfiguration"}) :
       LET failed == failing \cup (IF ValidateConfig(configuration) THEN {}
                                   ELSE {"validateConfiguration"})
           run == RunSteps(SetupSteps, failed, SetupFatal)
           escaped == Escaped(run, SetupFatal)
       IN /\ call' = [op |-> "globalSetup", failing |-> failed]
          /\ IF escaped = {}
             THEN /\ trace' = <<PageLogEv("info", "Starting Global Setup...")>> \o run
                                \o <<PageLogEv("info", "Global Setup Completed Successfully")>>
                  /\ outcome' = "returned"
                  /\ thrown' = NoError
             ELSE /\ trace' = <<PageLogEv("info", "Starting Global Setup...")>> \o run
                                \o <<PageLogEv("error", "Global Setup Failed:")>>
                  /\ outcome' = "threw"
                  /\ thrown' = StepError(run[CHOOSE k \in escaped : TRUE].name)
  /\ value' = NoValue
  /\ pc' = "done"
  /\ UNCHANGED <<suite, retries, i, errs, dataVars, configuration, inflight, hostVars>>

\* globalTeardown: try { the six steps; logger.info } catch { logger.error };
\* cleanupTestData starts with TestDataManager.clearCache()
GlobalTeardown ==
  /\ suite = "global"
  /\ pc = "idle"
  /\ \E archive \in BOOLEAN, notify \in BOOLEAN :
       \E failing \in SUBSET Range(TeardownSteps(archive, notify)) :
         LET run == RunSteps(TeardownSteps(archive, notify), failing, TeardownFatal)
             escaped == Escaped(run, TeardownFatal)
             cleared == \E k \in DOMAIN run : run[k].name = "cleanupTestData"
         IN /\ call' = [op |-> "globalTeardown", failing |-> failing,
                        archive |-> archive, notify |-> notify]
            /\ trace' = <<PageLogEv("info", "Starting Global Teardown...")>> \o run
                          \o (IF escaped = {}
                              THEN <<PageLogEv("info", "Global Teardown Completed Successfully")>>
                              ELSE <<PageLogEv("error", "Global Teardown Failed:")>>)
            /\ IF cleared
               THEN /\ data' = [f \in FileNames |-> "unset"]
                    /\ reads' = [f \in FileNames |-> 0]
                    /\ loads' = <<>>
               ELSE UNCHANGED <<data, reads, loads>>
  /\ outcome' = "returned"
  /\ thrown' = NoError
  /\ value' = NoValue
  /\ pc' = "done"
  /\ UNCHANGED <<suite, retries, i, errs, files, configuration, inflight, hostVars>>

----------------------------------------------------------------------------
(* Validated typing: TestHelpers.safeType *)

\* the options object: validateSet is FALSE when the key is absent
ValidateOptions ==
  {[validateSet |-> FALSE, validate |-> FALSE]} \cup
  {[validateSet |-> TRUE, validate |-> b] : b \in BOOLEAN}
\* what the field holds after the fill (an input mask or a length limit may
\* change what was typed)
FieldValues == {"testuser", "testuse"}

\* const { timeout = 10000, validate = true } = options
TestHelpersValidateOptIn(opt) == IF opt.validateSet THEN opt.validate ELSE FALSE
TestHelpersValidate(opt) == IF opt.validateSet THEN opt.validate ELSE TRUE

\* the engine calls of the try block, in order
TypeSteps(validate) ==
  <<"waitFor", "clear", "fill">> \o (IF validate THEN <<"inputValue">> ELSE <<>>)

ValidationError(text, actual) ==
  [name |-> "Error", at |-> 0,
   message |-> <<"Text validation failed. Expected: ", text, ", Actual: ", actual>>]

\* try { waitFor; clear; fill; if (validate) { value = inputValue();
\* if (value !== text) throw new Error(...) }; logger.debug }
\* catch { logger.error; throw error }
SafeType(sel, text, opt, failAt, actual, e) ==
  LET steps == TypeSteps(TestHelpersValidate(opt))
      calls == [k \in 1..(IF failAt = 0 THEN Len(steps) ELSE failAt) |->
                  EngineEv(steps[k], sel, k # failAt)]
  IN IF failAt # 0
     THEN [outcome |-> "threw", thrown |-> [name |-> e, at |-> failAt],
           trace |-> calls \o <<LogEv("error", "Failed to type into", sel, 0)>>]
     ELSE IF TestHelpersValidate(opt) /\ actual # text
     THEN [outcome |-> "threw", thrown |-> ValidationError(text, actual),
           trace |-> calls \o <<LogEv("error", "Failed to type into", sel, 0)>>]
     ELSE [outcome |-> "returned", thrown |-> NoError,
           trace |-> calls \o <<LogEv("debug", "Successfully typed into", sel, 0)>>]

\* a test types into a field with the helper
ValidatedType ==
  /\ suite = "interaction"
  /\ pc = "idle"
  /\ \E sel \in Selectors, text \in Texts, opt \in ValidateOptions,
        actual \in FieldValues, e \in EngineErrors :
       \E failAt \in 0..Len(TypeSteps(TestHelpersValidate(opt))) :
         LET res == SafeType(sel, text, opt, failAt, actual, e)
         IN /\ failAt = 0 => e = "TimeoutError"
            /\ failAt # 0 => actual = text
            /\ call' = [op |-> "TestHelpers.safeType", selector |-> sel, text |-> text,
                        options |-> opt, failAt |-> failAt, actual |-> actual]
            /\ trace' = res.trace
            /\ outcome' = res.outcome
            /\ thrown' = res.thrown
  /\ value' = NoValue
  /\ pc' = "done"
  /\ UNCHANGED <<suite, retries, i, errs, dataVars, configuration, inflight, hostVars>>

----------------------------------------------------------------------------
(* Assertion helpers of the page object: BasePage.assertElementText,       *)
(* assertElementVisible, assertElementNotVisible, assertPageTitle,         *)
(* assertPageUrl                                                           *)

AssertionOps ==
  {"BasePage.assertElementText", "BasePage.assertElementVisible",
   "BasePage.assertElementNotVisible", "BasePage.assertPageTitle", "BasePage.assertPageUrl"}
ExpectEv(op, pass) == [kind |-> "expect", op |-> op, ok |-> pass]
\* logger.assertion(description, success, ...)
AssertionLogEv(op, success) ==
  [kind |-> "log", level |-> "debug", msg |-> "Assertion", description |-> op,
   success |-> success]

\* (assertElementText: waitForElement;) await expect(...)...; then
\* logger.assertion(description, true, ...): a failing expect throws, and the
\* logger call after it is not reached
Assertion(op, found, pass) ==
  LET wait == IF op = "BasePage.assertElementText"
              THEN <<EngineEv("waitFor", "#login-button", found)>> ELSE <<>>
  IN IF op = "BasePage.assertElementText" /\ ~found
     THEN [outcome |-> "threw", thrown |-> [name |-> "TimeoutError", at |-> 1],
           trace |-> wait]
     ELSE IF ~pass
     THEN [outcome |-> "threw", thrown |-> [name |-> "ExpectError", at |-> 0],
           trace |-> wait \o <<ExpectEv(op, FALSE)>>]
     ELSE [outcome |-> "returned", thrown |-> NoError,
           trace |-> wait \o <<ExpectEv(op, TRUE), AssertionLogEv(op, TRUE)>>]

\* a test asserts on the page through the page object
AssertOnPage ==
  /\ suite = "page"
  /\ pc = "idle"
  /\ \E op \in AssertionOps, found \in BOOLEAN, pass \in BOOLEAN :
       LET res == Assertion(op, found, pass)
       IN /\ ~found => (op = "BasePage.assertElementText" /\ ~pass)
          /\ call' = [op |-> op, found |-> found, pass |-> pass]
          /\ trace' = res.trace
          /\ outcome' = res.outcome
          /\ thrown' = res.thrown
  /\ value' = NoValue
  /\ pc' = "done"
  /\ UNCHANGED <<suite, retries, i, errs, dataVars, configuration, inflight, hostVars>>

----------------------------------------------------------------------------
(* Page-object methods: BasePage.click, BasePage.type, BasePage.selectOption, *)
(* BasePage.uploadFile, BasePage.executeScript                                *)

PrimitiveMethods == {"BasePage.click", "BasePage.type"}
EngineMethods == {"BasePage.selectOption", "BasePage.uploadFile", "BasePage.executeScript"}
\* the primitive a method hands its selector and options to
PrimitiveOf(op) ==
  CASE op = "BasePage.click" -> "PageUtils.safeClick"
    [] op = "BasePage.type" -> "PageUtils.safeType"
MethodStepName(op) ==
  CASE op = "BasePage.click" -> "Click element"
    [] op = "BasePage.type" -> "Type text into"
    [] op = "BasePage.selectOption" -> "Select option"
    [] op = "BasePage.uploadFile" -> "Upload file"
    [] op = "BasePage.executeScript" -> "Execute JavaScript"

\* click(selector, options?: { timeout?, force? }) and
\* type(selector, text, options?: { timeout?, delay? }): no retries key
MethodOptions(op) ==
  {[retriesSet |-> FALSE, retries |-> 0, timeout |-> t, force |-> f] :
     t \in {{}, {5000}},
     f \in IF op = "BasePage.click" THEN {{}, {TRUE}, {FALSE}} ELSE {{}}}

\* click / type: logger.stepStart, then the primitive is entered with the
\* selector and the options object as received
CallMethod ==
  /\ suite = "page"
  /\ pc = "idle"
  /\ \E op \in PrimitiveMethods, sel \in Selectors, text \in Texts :
       \E opt \in MethodOptions(op) :
         /\ call' = [op |-> op, prim |-> PrimitiveOf(op), selector |-> sel, text |-> text,
                     options |-> opt]
         /\ retries' = EffectiveRetries(PrimitiveOf(op), opt)
         /\ trace' = <<StepLogEv("STEP_START", MethodStepName(op), TRUE)>>
  /\ i' = 0
  /\ pc' = "loop"
  /\ UNCHANGED <<suite, errs, outcome, thrown, value, dataVars, configuration, inflight, hostVars>>

\* click / type after the primitive: stepEnd(true) when it returned, the catch
\* clause when it threw
MethodEnd ==
  /\ pc = "caller"
  /\ IF outcome = "returned"
     THEN /\ trace' = Append(trace, StepLogEv("STEP_END", MethodStepName(call.op), TRUE))
          /\ UNCHANGED thrown
     ELSE /\ trace' = Append(trace, StepLogEv("STEP_END", MethodStepName(call.op), FALSE))
          /\ thrown' = Rethrow(thrown)
  /\ pc' = "done"
  /\ UNCHANGED <<suite, call, retries, i, errs, outcome, value, dataVars, configuration,
                 inflight, hostVars>>

\* the engine calls of the try block of selectOption, uploadFile (after
\* waitForElement) and executeScript
MethodSteps(op) ==
  CASE op = "BasePage.selectOption" -> <<"waitFor", "selectOption">>
    [] op = "BasePage.uploadFile" -> <<"waitFor", "setInputFiles">>
    [] op = "BasePage.executeScript" -> <<"evaluate">>

\* selectOption / uploadFile / executeScript: logger.stepStart; try { the
\* engine calls; stepEnd(true); (return result) } catch { stepEnd(false); throw }
EngineMethod(op, sel, failAt, e) ==
  LET steps == MethodSteps(op)
      calls == [k \in 1..(IF failAt = 0 THEN Len(steps) ELSE failAt) |->
                  EngineEv(steps[k], sel, k # failAt)]
      start == <<StepLogEv("STEP_START", MethodStepName(op), TRUE)>>
  IN IF failAt = 0
     THEN [outcome |-> "returned", thrown |-> NoError,
           value |-> IF op = "BasePage.executeScript" THEN [type |-> "result"] ELSE NoValue,
           trace |-> start \o calls \o <<StepLogEv("STEP_END", MethodStepName(op), TRUE)>>]
     ELSE [outcome |-> "threw", thrown |-> Rethrow([name |-> e, at |-> steps[failAt]]),
           value |-> NoValue,
           trace |-> start \o calls \o <<StepLogEv("STEP_END", MethodStepName(op), FALSE)>>]

\* a test selects an option, uploads a file or runs a script through the
\* page object
CallEngineMethod ==
  /\ suite = "page"
  /\ pc = "idle"
  /\ \E op \in EngineMethods, sel \in Selectors, e \in EngineErrors :
       \E failAt \in 0..Len(MethodSteps(op)) :
         LET res == EngineMethod(op, sel, failAt, e)
         IN /\ failAt = 0 => e = "TimeoutError"
            /\ call' = [op |-> op, selector |-> sel, failAt |-> failAt, e |-> e]
            /\ trace' = res.trace
            /\ outcome' = res.outcome
            /\ thrown' = res.thrown
            /\ value' = res.value
  /\ pc' = "done"
  /\ UNCHANGED <<suite, retries, i, errs, dataVars, configuration, inflight, hostVars>>

----------------------------------------------------------------------------
(* BrowserManager: the static registries of browsers, contexts and pages  *)
(* and closeAll                                                            *)

MaxHandles == 3   \* handles registered between two closeAll calls

Registries == {"pages", "contexts", "browsers"}
HandleNames == {"main", "second"}
EmptyRegistry == [pages |-> <<>>, contexts |-> <<>>, browsers |-> <<>>]

\* Map.prototype.set(name, handle) on a map kept as its entries in insertion
\* order: an existing key keeps its place and gets the new value, a new key
\* is appended
MapSet(entries, name, handle) ==
  IF \E j \in DOMAIN entries : entries[j].name = name
  THEN [j \in DOMAIN entries |->
          IF entries[j].name = name THEN [name |-> name, handle |-> handle]
          ELSE entries[j]]
  ELSE Append(entries, [name |-> name, handle |-> handle])

RegisterOp(kind) ==
  CASE kind = "pages" -> "BrowserManager.registerPage"
    [] kind = "contexts" -> "BrowserManager.registerContext"
    [] kind = "browsers" -> "BrowserManager.registerBrowser"
RegistryLogEv(level, msg, kind, name) ==
  [kind |-> "log", level |-> level, msg |-> msg, registry |-> kind, name |-> name]
CloseEv(kind, entry, ok) ==
  [kind |-> "close", registry |-> kind, name |-> entry.name,
   handle |-> entry.handle, ok |-> ok]

\* registerBrowser / registerContext / registerPage(name, handle): the test
\* registers a handle it has just created
Register ==
  /\ suite = "browser"
  /\ pc = "idle"
  /\ Cardinality(registered) < MaxHandles
  /\ \E kind \in Registries, name \in HandleNames :
       LET handle == Cardinality(registered) + 1
       IN /\ call' = [op |-> RegisterOp(kind), name |-> name, handle |-> handle]
          /\ registry' = [registry EXCEPT ![kind] = MapSet(@, name, handle)]
          /\ registered' = registered \cup {[registry |-> kind, handle |-> handle]}
          /\ trace' = <<RegistryLogEv("info", "registered", kind, name)>>
  /\ outcome' = "returned"
  /\ value' = NoValue
  /\ pc' = "done"
  /\ UNCHANGED <<suite, retries, i, errs, thrown, dataVars, configuration, inflight, users>>

\* the order of the three loops of closeAll
CloseOrderRootFirst == <<"browsers", "contexts", "pages">>
CloseOrder == <<"pages", "contexts", "browsers">>

\* closeAll(): logger.info, then the first loop starts
CloseAll ==
  /\ suite = "browser"
  /\ pc = "idle"
  /\ call' = [op |-> "BrowserManager.closeAll", phase |-> 1]
  /\ i' = 1
  /\ trace' = <<PageLogEv("info", "Closing all browser resources...")>>
  /\ pc' = "closing"
  /\ UNCHANGED <<suite, retries, errs, outcome, thrown, value, dataVars, configuration,
                 inflight, hostVars>>

\* one iteration of a loop: try { await handle.close(); logger.info }
\* catch (error) { logger.error }
CloseHandle ==
  /\ pc = "closing"
  /\ i <= Len(registry[CloseOrder[call.phase]])
  /\ \E ok \in BOOLEAN :
       LET kind == CloseOrder[call.phase]
           entry == registry[kind][i]
       IN /\ trace' = trace \o
               <<CloseEv(kind, entry, ok),
                 IF ok THEN RegistryLogEv("info", "closed", kind, entry.name)
                 ELSE RegistryLogEv("error", "Error closing", kind, entry.name)>>
          /\ errs' = IF ok THEN errs
                     ELSE Append(errs, [name |-> "TargetClosedError", at |-> Len(trace) + 1])
  /\ i' = i + 1
  /\ UNCHANGED <<suite, pc, call, retries, outcome, thrown, value, dataVars, configuration,
                 inflight, hostVars>>

\* a loop is over: the next loop starts, and after the last one the three
\* maps are cleared and closeAll returns
NextRegistry ==
  /\ pc = "closing"
  /\ i > Len(registry[CloseOrder[call.phase]])
  /\ IF call.phase < Len(CloseOrder)
     THEN /\ call' = [call EXCEPT !.phase = @ + 1]
          /\ i' = 1
          /\ UNCHANGED <<pc, outcome, registry>>
     ELSE /\ registry' = EmptyRegistry
          /\ outcome' = "returned"
          /\ pc' = "done"
          /\ UNCHANGED <<call, i>>
  /\ UNCHANGED <<suite, retries, trace, errs, thrown, value, dataVars, configuration,
                 inflight, registered, users>>

----------------------------------------------------------------------------
(* Sample REST API: the /users routes of the mock server                   *)

MaxUsers == 4     \* POST /users is followed while fewer users are stored

At == "@"
\* the `users` array when the server starts (role and createdAt are left out:
\* no route reads them); a name is the sequence of its characters, an email
\* the sequence of its pieces around the '@'
InitialUsers ==
  <<[id |-> 1, name |-> <<"J", "o", "h", "n", " ", "D", "o", "e">>,
     email |-> <<"john.doe", At, "example.com">>],
    [id |-> 2, name |-> <<"J", "a", "n", "e", " ", "S", "m", "i", "t", "h">>,
     email |-> <<"jane.smith", At, "example.com">>],
    [id |-> 3, name |-> <<"B", "o", "b", " ", "J", "o", "h", "n", "s", "o", "n">>,
     email |-> <<"bob.johnson", At, "example.com">>]>>

\* request bodies: a valid and a too short name, a valid and an invalid
\* email, and optionally an `id` member
BodyNames == {<<"A", "l">>, <<"X">>}
BodyEmails == {<<"new.user", At, "example.com">>, <<"new.user">>}
UserBodies ==
  [name : BodyNames, email : BodyEmails, id : {{}, {1}}]
UserIds == 1..(MaxUsers + 1)

\* name.length and email.includes('@')
Length(str) == Len(str)
Includes(str, piece) == \E j \in DOMAIN str : str[j] = piece

\* validateUser(userData): the list of error messages
ValidateUser(userData) ==
  (IF Length(userData.name) < 2 THEN <<"Name must be at least 2 characters">> ELSE <<>>)
    \o (IF ~Includes(userData.email, At) THEN <<"Valid email is required">> ELSE <<>>)

\* users.findIndex(u => u.id === userId): the first match, 0 for none
FindIndex(list, userId) ==
  IF \E j \in DOMAIN list : list[j].id = userId
  THEN CHOOSE j \in DOMAIN list :
         list[j].id = userId /\ \A l \in DOMAIN list : list[l].id = userId => j <= l
  ELSE 0
\* users.splice(index, 1)
Splice(list, index) ==
  [j \in 1..(Len(list) - 1) |-> IF j < index THEN list[j] ELSE list[j + 1]]

ServerResponse(status, body) == [type |-> "response", status |-> status, body |-> body]
ResponseEv(status) == [kind |-> "res", status |-> status]

\* POST /users
PostUsers(list, userData) ==
  IF Len(ValidateUser(userData)) > 0
  THEN [users |-> list, status |-> 400, body |-> {}]
  ELSE IF \E j \in DOMAIN list : list[j].email = userData.email
  THEN [users |-> list, status |-> 409, body |-> {}]
  ELSE LET newUser == [id |-> Len(list) + 1, name |-> userData.name,
                       email |-> userData.email]
       IN [users |-> Append(list, newUser), status |-> 201, body |-> {newUser}]

\* PUT /users/:id: { ...users[userIndex], ...userData }
PutUser(list, userId, userData) ==
  LET userIndex == FindIndex(list, userId)
  IN IF userIndex = 0
     THEN [users |-> list, status |-> 404, body |-> {}]
     ELSE IF Len(ValidateUser(userData)) > 0
     THEN [users |-> list, status |-> 400, body |-> {}]
     ELSE LET updated == [id |-> IF userData.id = {} THEN list[userIndex].id
                                 ELSE CHOOSE x \in userData.id : TRUE,
                          name |-> userData.name,
                          email |-> userData.email]
          IN [users |-> [list EXCEPT ![userIndex] = updated], status |-> 200,
              body |-> {updated}]

\* DELETE /users/:id
DeleteUser(list, userId) ==
  LET userIndex == FindIndex(list, userId)
  IN IF userIndex = 0
     THEN [users |-> list, status |-> 404, body |-> {}]
     ELSE [users |-> Splice(list, userIndex), status |-> 200, body |-> {}]

\* GET /users/:id: users.find(u => u.id === userId)
GetUser(list, userId) ==
  LET userIndex == FindIndex(list, userId)
  IN IF userIndex = 0
     THEN [users |-> list, status |-> 404, body |-> {}]
     ELSE [users |-> list, status |-> 200, body |-> {list[userIndex]}]

Routes == {"GET /users/:id", "POST /users", "PUT /users/:id", "DELETE /users/:id"}
Route(route, list, userId, userData) ==
  CASE route = "GET /users/:id" -> GetUser(list, userId)
    [] route = "POST /users" -> PostUsers(list, userData)
    [] route = "PUT /users/:id" -> PutUser(list, userId, userData)
    [] route = "DELETE /users/:id" -> DeleteUser(list, userId)

\* the server handles one request
ServerRequest ==
  /\ suite = "server"
  /\ pc = "idle"
  /\ \E route \in Routes, userId \in UserIds, userData \in UserBodies :
       LET res == Route(route, users, userId, userData)
       IN /\ route = "POST /users" => Len(users) < MaxUsers
          /\ call' = [op |-> route, id |-> userId, body |-> userData]
          /\ users' = res.users
          /\ trace' = <<ResponseEv(res.status)>>
          /\ value' = ServerResponse(res.status, res.body)
  /\ outcome' = "returned"
  /\ pc' = "done"
  /\ UNCHANGED <<suite, retries, i, errs, thrown, dataVars, configuration, inflight,
                 registry, registered>>

----------------------------------------------------------------------------
\* the operation is over: the test goes on to its next operation (requests of
\* a rejected batch that are still in flight are not followed any further)
Return ==
  /\ pc = "done"
  /\ pc' = "idle"
  /\ call' = NoCall
  /\ retries' = 0
  /\ i' = 0
  /\ trace' = <<>>
  /\ errs' = <<>>
  /\ outcome' = "none"
  /\ thrown' = NoError
  /\ value' = NoValue
  /\ inflight' = NoBatch
  /\ registered' = IF call.op = "BrowserManager.closeAll" THEN {} ELSE registered
  /\ UNCHANGED <<suite, dataVars, configuration, registry, users>>

Init ==
  /\ suite \in Suites
  /\ pc = "idle"
  /\ call = NoCall
  /\ retries = 0
  /\ i = 0
  /\ trace = <<>>
  /\ errs = <<>>
  /\ outcome = "none"
  /\ thrown = NoError
  /\ value = NoValue
  /\ files \in [FileNames -> FileStates]
  /\ suite # "fixtures" => files = [f \in FileNames |-> "absent"]
  /\ data = [f \in FileNames |-> "unset"]
  /\ reads = [f \in FileNames |-> 0]
  /\ loads = <<>>
  /\ configuration \in {LoadConfig(env) : env \in Environs}
  /\ suite # "global" => configuration = LoadConfig(DefaultEnviron)
  /\ inflight = NoBatch
  /\ registry = EmptyRegistry
  /\ registered = {}
  /\ users = InitialUsers

Next ==
  \/ CallPrimitive
  \/ LoopTest
  \/ Attempt
  \/ Backoff
  \/ QueryElement
  \/ LoadJsonData
  \/ SaveDataToFile
  \/ ClearCache
  \/ Generate
  \/ ApiRequest
  \/ ApiConvenience
  \/ BatchRequests
  \/ BatchComplete
  \/ Navigate
  \/ WaitForPageLoad
  \/ Login
  \/ GlobalSetup
  \/ GlobalTeardown
  \/ ValidatedType
  \/ AssertOnPage
  \/ CallMethod
  \/ MethodEnd
  \/ CallEngineMethod
  \/ Register
  \/ CloseAll
  \/ CloseHandle
  \/ NextRegistry
  \/ ServerRequest
  \/ Return

Spec == Init /\ [][Next]_vars

----------------------------------------------------------------------------
(* Properties of the interaction primitives *)

InPrimitive == call.op \in Primitives
InPageUtils == call.op \in {"PageUtils.safeClick", "PageUtils.safeType"}
Finished == pc = "done"
LastEvent == trace[Len(trace)]
\* some attempt of the running call made all its engine calls without a failure
Succeeded == NumFailures < NumAttempts

\* C1: for every explicit retries value r <= 0 the primitive performs
\* exactly one attempt: never zero attempts and never more than one.
C1_ExactlyOneAttempt ==
  (InPrimitive /\ Finished /\ call.options.retriesSet /\ call.options.retries <= 0)
    => NumAttempts = 1

\* C2: for every retries value r >= 1, safeClick and safeType never make more
\* than r attempts, and when every attempt fails they make exactly r attempts
\* and then raise to the caller instead of returning.
C2_ExactlyRAttemptsThenRaise ==
  (InPageUtils /\ call.options.retriesSet /\ call.options.retries >= 1)
    => /\ NumAttempts <= call.options.retries
       /\ (Finished /\ ~Succeeded)
            => (NumAttempts = call.options.retries /\ outcome = "threw")
       /\ outcome = "threw" => NumAttempts = call.options.retries

C2_Witness ==
  /\ InPageUtils /\ Finished /\ outcome = "threw"
  /\ call.options.retriesSet /\ call.options.retries >= 2
  /\ NumFailures = call.options.retries

C4_FixedBackoffBetweenAttempts ==
  InPrimitive =>
    /\ \A k \in DOMAIN trace :
         trace[k].kind = "wait" =>
           /\ trace[k].ms = 1000
           /\ k >= 3
           /\ trace[k-1].kind = "log" /\ trace[k-1].level = "warn"
           /\ trace[k-2].kind = "engine" /\ ~trace[k-2].ok
           /\ k < Len(trace) => trace[k+1].kind = "attempt"
    /\ (Finished /\ Succeeded) => NumWaits = NumFailures
    /\ (Finished /\ ~Succeeded /\ NumAttempts > 0) => NumWaits = NumFailures - 1
    /\ (Finished /\ trace # <<>>) => LastEvent.kind # "wait"

C4_Witness ==
  /\ InPrimitive /\ Finished /\ NumWaits >= 2 /\ Succeeded

\* C5: every attempt emits exactly one log event, carrying the selector and
\* telling success (debug) from failure (warn, error), before the next
\* attempt starts; the number of log events equals the number of attempts.
C5_OneLogPerAttempt ==
  InPrimitive =>
    /\ NumLogs = NumAttempts
    /\ \A k \in DOMAIN trace :
         trace[k].kind = "attempt" =>
           Cardinality({j \in 1..k : trace[j].kind = "log"}) = trace[k].n - 1
    /\ \A k \in DOMAIN trace :
         trace[k].kind = "log" =>
           /\ trace[k].selector = call.selector
           /\ k >= 2 /\ trace[k-1].kind = "engine"
           /\ (trace[k].level \in {"warn", "error"}) = ~trace[k-1].ok

C5_Witness ==
  /\ InPageUtils /\ Finished /\ NumAttempts >= 2 /\ NumFailures >= 1 /\ Succeeded

----------------------------------------------------------------------------
(* Properties of the boolean queries *)

InQuery == call.op \in Queries
QueryFailed == \E k \in DOMAIN trace : ~trace[k].ok

\* C6: isVisible and isEnabled never raise: when anything inside them fails
\* they return false, and otherwise they return the engine's answer.
C6_QueriesNeverRaise ==
  (InQuery /\ Finished)
    => /\ outcome = "returned"
       /\ value.type = "boolean"
       /\ QueryFailed => value.v = FALSE
       /\ ~QueryFailed => (Len(trace) = 3 /\ value.v = trace[2].answer)

C6_Witness ==
  /\ InQuery /\ Finished /\ outcome = "returned"
  /\ Len(trace) = 3 /\ ~trace[3].ok /\ trace[2].answer /\ value.v = FALSE

----------------------------------------------------------------------------
(* Properties of the fixture loader *)

\* C7: loading the same fixture name twice with no clearCache in between
\* returns equal content and performs no second file read.
C7_SecondLoadServedFromCache ==
  \A j, k \in DOMAIN loads :
    (j < k /\ loads[j].fileName = loads[k].fileName /\ loads[j].ok)
      => /\ loads[k].ok
         /\ loads[k].content = loads[j].content
         /\ reads[loads[k].fileName] = 1

----------------------------------------------------------------------------
(* Properties of the generators *)

InGenerate == call.op \in Generators
Generated == IF value.type = "array" THEN value.items ELSE <<value.rec>>

\* C8: for every kind, generate with count n > 1 returns an ordered sequence
\* of exactly n records (the records in the order they were generated), and
\* with n = 1 returns the single record itself, not a sequence.
C8_SequenceOfNOrSingleRecord ==
  (InGenerate /\ Finished)
    => /\ call.count > 1 =>
            /\ value.type = "array"
            /\ Len(value.items) = call.count
            /\ \A k \in 1..call.count :
                 value.items[k] = call.pushed[k] /\ value.items[k].kind = call.kind
       /\ call.count = 1 =>
            /\ value.type = "record"
            /\ value.rec = call.pushed[1] /\ value.rec.kind = call.kind

C8_Witness ==
  /\ InGenerate /\ Finished /\ call.kind = "order" /\ call.count = 2
  /\ value.type = "array" /\ value.items[1] # value.items[2]

\* C9: every order record produced by generateOrderData has a total equal to
\* its own subtotal * 1.08 plus its own shipping field.
C9_OrderTotalConsistent ==
  (InGenerate /\ Finished /\ call.kind = "order")
    => \A k \in DOMAIN Generated :
         Generated[k].total = (Generated[k].subtotal * 108) \div 100 + Generated[k].shipping

----------------------------------------------------------------------------
(* Properties of the HTTP client *)

InRequest == call.op = "ApiClient.request"
\* the server's answer to the running request
Answer == trace[1].answer
ErrorStatus(st) == st >= 400

\* C10: for each verb, when the server answers the request for path p with an
\* error status s, the call raises, and the error raised has status s, url p,
\* the verb as its method and the response body as its data.
C10_NormalizedErrorCarriesStatusAndUrl ==
  (InRequest /\ Finished /\ Answer.kind = "response" /\ ErrorStatus(Answer.status))
    => /\ outcome = "threw"
       /\ thrown.status = {Answer.status}
       /\ thrown.url = {call.url}
       /\ thrown.method = {call.verb}
       /\ thrown.data = {Answer.data}

C10_Witness ==
  /\ InRequest /\ Finished /\ call.verb = "get" /\ call.url = "/users/999999"
  /\ Answer.kind = "response" /\ Answer.status = 404
  /\ outcome = "threw" /\ thrown.status = {404}

----------------------------------------------------------------------------
(* Properties of the HTTP test client: failures and batches *)

InApi == call.op \in {"ApiClient.request", "ApiClient.batchRequests"} \cup FileOps
IsFailedRequest(ev) == ev.kind = "http" /\ ~Settle(ev.config, ev.answer).resolved
\* the requests of the running operation that the server failed
FailedRequests == {k \in DOMAIN trace : IsFailedRequest(trace[k])}
Normalized(ev) == HandleError(Settle(ev.config, ev.answer).error)

\* C11 as stated: every public operation of the client that issues a request
\* (the verbs, uploadFile, downloadFile, healthCheck, batchRequests) raises the
\* normalized error when its request fails; none returns normally.
C11_EveryOperationRaises ==
  (InApi /\ Finished /\ FailedRequests # {})
    => /\ outcome = "threw"
       /\ \E k \in FailedRequests : thrown = Normalized(trace[k])

\* C11 amended: when its request fails, every operation but healthCheck raises
\* the normalized error of a failed request and returns no value; healthCheck
\* logs the failure and returns false.
C11_OnlyHealthCheckRecovers ==
  (InApi /\ Finished /\ FailedRequests # {})
    => IF call.op = "ApiClient.healthCheck"
       THEN /\ outcome = "returned"
            /\ value = BoolValue(FALSE)
            /\ LastEvent.kind = "log" /\ LastEvent.level = "error"
       ELSE /\ outcome = "threw"
            /\ value = NoValue
            /\ \E k \in FailedRequests : thrown = Normalized(trace[k])

\* a health check whose request got a 500 answered false; a download and a
\* verb whose request failed are covered by the same run
C11_Witness ==
  /\ call.op = "ApiClient.healthCheck"
  /\ Finished
  /\ FailedRequests # {}
  /\ value = BoolValue(FALSE)

InBatch == call.op = "ApiClient.batchRequests"
AllCompleted == Len(inflight.order) = Len(inflight.answers)
FailingThunks == {k \in DOMAIN inflight.answers : Rejected(inflight.answers, k)}
SameResponse(response, answer) ==
  response.status = answer.status /\ response.data = answer.data

\* C12: when every request of a batch succeeds, batchRequests returns, once
\* all have completed and whatever the order of completion, a list as long as
\* its input whose i-th element is the response to the i-th thunk.
C12_ResponsesInInputOrder ==
  (InBatch /\ FailingThunks = {} /\ AllCompleted)
    => /\ Finished
       /\ outcome = "returned"
       /\ value.type = "responses"
       /\ Len(value.items) = call.n
       /\ \A k \in 1..call.n : SameResponse(value.items[k], inflight.answers[k])

\* the second thunk completed first, with a response unlike the first one's
C12_Witness ==
  /\ InBatch /\ Finished /\ outcome = "returned"
  /\ call.n >= 2
  /\ inflight.order[1] = 2
  /\ inflight.answers[1].data # inflight.answers[2].data

\* C13: a batch with a failing request never returns; as soon as a failing
\* request has completed, batchRequests has rejected with the error of the
\* first request to fail, and it hands out no response, wherever the failing
\* request stands in the list and whatever completed before it.
C13_OneFailureRejectsTheBatch ==
  InBatch =>
    /\ FailingThunks # {} => outcome # "returned"
    /\ (\E j \in DOMAIN inflight.order : inflight.order[j] \in FailingThunks)
         => /\ Finished
            /\ outcome = "threw"
            /\ value = NoValue
            /\ \E j \in DOMAIN inflight.order :
                 /\ inflight.order[j] \in FailingThunks
                 /\ \A l \in 1..(j - 1) : inflight.order[l] \notin FailingThunks
                 /\ thrown = Thunk(inflight.answers, inflight.order[j]).thrown

\* the last thunk of three failed after a successful one had completed
C13_Witness ==
  /\ InBatch /\ Finished /\ outcome = "threw"
  /\ call.n = 3
  /\ FailingThunks = {3}
  /\ Len(inflight.order) >= 2
  /\ inflight.order[1] # 3

----------------------------------------------------------------------------
(* Properties of the page-load waits *)

InPageWait == call.op \in PageWaitOps
HasLog(level) == \E k \in DOMAIN trace : trace[k].kind = "log" /\ trace[k].level = level

\* C14 as stated: when domcontentloaded is reached but networkidle times out,
\* the page-load wait of the page objects logs a warning and completes, and
\* goto / refresh / goBack / goForward do not fail.
C14_NetworkIdleTimeoutNotFatal ==
  (InPageWait /\ Finished /\ call.navOk /\ call.dom /\ ~call.idle)
    => /\ outcome = "returned"
       /\ HasLog("warn")

\* C15 as stated: TestHelpers.waitForPageLoad raises a timeout failure when
\* load or domcontentloaded is not reached, and completes normally only when
\* both were reached.
C15_RequiredStateTimeoutRaises ==
  (call.op = "TestHelpers.waitForPageLoad" /\ Finished)
    => IF call.load /\ call.dom
       THEN outcome = "returned"
       ELSE outcome = "threw" /\ thrown.name = "TimeoutError"

----------------------------------------------------------------------------
(* Properties of the login page object *)

InLogin == call.op = "LoginPage.login"

\* C16 as stated: login on a page that never reaches a URL matching
\* /dashboard/ fails with an AssertionError and does not return normally.
C16_FailsOffDashboard ==
  (InLogin /\ Finished /\ call.url # "/dashboard")
    => outcome = "threw" /\ thrown.name = "AssertionError"

\* C16 amended: login looks at no URL.  It returns normally exactly when all
\* its typing and clicking calls succeeded, wherever the page then is, and
\* otherwise raises the error of the call that failed, never an AssertionError.
C16_ReturnsWhateverTheUrl ==
  (InLogin /\ Finished)
    => /\ (outcome = "returned") = (call.failAt = 0)
       /\ outcome = "threw"
            => /\ thrown.name \in EngineErrors
               /\ thrown.at = LastEvent.name
               /\ ~LastEvent.ok

\* login returned although the page stayed on /login
C16_Witness ==
  /\ InLogin /\ Finished
  /\ call.url = "/login"
  /\ outcome = "returned"

----------------------------------------------------------------------------
(* Properties of global setup and teardown *)

InSetup == call.op = "globalSetup"
InTeardown == call.op = "globalTeardown"
\* the names of the steps performed by the running operation, in order
StepsDone ==
  LET steps == SelectSeq(trace, LAMBDA ev : ev.kind = "step")
  IN [k \in DOMAIN steps |-> steps[k].name]
StepFailed(name) ==
  \E k \in DOMAIN trace : trace[k].kind = "step" /\ trace[k].name = name /\ ~trace[k].ok

\* C17: when one of urls.base, browser.timeout, test.timeout is missing or
\* empty in the snapshot, globalSetup raises 'Configuration validation failed'
\* and performs none of the steps after the validation.
C17_InvalidConfigurationStopsSetup ==
  (InSetup /\ Finished /\ Missing(configuration) # {})
    => /\ outcome = "threw"
       /\ thrown.message = "Configuration validation failed"
       /\ StepsDone = <<"validateConfiguration">>

\* the snapshot lacks browser.timeout only, and setup has ended
C17_Witness ==
  /\ InSetup /\ Finished
  /\ Missing(configuration) = {<<"browser", "timeout">>}
  /\ outcome = "threw"

\* C18: a failing health check does not make globalSetup raise; globalTeardown
\* never raises, and whichever of its steps fail, every teardown step is
\* performed, in the fixed order.
C18_NonEssentialFailuresDoNotAbort ==
  /\ (InSetup /\ Finished /\ StepFailed("performHealthChecks"))
       => /\ outcome = "returned"
          /\ StepsDone = SetupSteps
  /\ (InTeardown /\ Finished)
       => /\ outcome = "returned"
          /\ StepsDone = TeardownSteps(call.archive, call.notify)

\* a teardown with all six steps enabled in which closing the browsers and the
\* report generation failed
C18_Witness ==
  /\ InTeardown /\ Finished
  /\ call.archive /\ call.notify
  /\ {"closeBrowserResources", "generateFinalReports"} \subseteq call.failing
  /\ StepFailed("generateFinalReports")
  /\ Len(StepsDone) = 6

----------------------------------------------------------------------------
(* Properties of validated typing and of the assertion helpers *)

InSafeType == call.op = "TestHelpers.safeType"
ReadBack == \E k \in DOMAIN trace : trace[k].kind = "engine" /\ trace[k].step = "inputValue"
\* waitFor, clear and fill went through
Filled == \E k \in DOMAIN trace : trace[k].kind = "engine" /\ trace[k].step = "fill" /\ trace[k].ok
ValidateRequested == ~call.options.validateSet \/ call.options.validate

InAssertion == call.op \in AssertionOps
AssertionLogs == {k \in DOMAIN trace : trace[k].kind = "log" /\ trace[k].msg = "Assertion"}

\* C20 as stated: every invocation of an assertion helper emits exactly one
\* assertion log event, whether the assertion passes or fails, and the success
\* flag of the event equals the outcome of the assertion.
C20_AssertionAlwaysLogged ==
  (InAssertion /\ Finished /\ call.found)
    => /\ Cardinality(AssertionLogs) = 1
       /\ \A k \in AssertionLogs : trace[k].success = call.pass

----------------------------------------------------------------------------
(* Properties of the page-object methods *)

InMethod == call.op \in PrimitiveMethods \cup EngineMethods \cup NavOps
\* the engine calls of the running operation that failed
FailedCalls ==
  {k \in DOMAIN trace : trace[k].kind \in {"engine", "navigation", "loadState"} /\ ~trace[k].ok}
\* the error the primitive or the engine gave the method, when it gave one
Underlying ==
  IF call.op \in PrimitiveMethods
  THEN IF Len(errs) = retries THEN {errs[Len(errs)]} ELSE {}
  ELSE IF call.op \in EngineMethods
  THEN IF call.failAt # 0
       THEN {[name |-> call.e, at |-> MethodSteps(call.op)[call.failAt]]} ELSE {}
  ELSE IF ~call.navOk THEN {[name |-> call.e, at |-> NavStep(call.op)]}
  ELSE IF ~call.idle THEN {TimeoutError("networkidle")}
  ELSE IF ~call.dom THEN {TimeoutError("domcontentloaded")}
  ELSE {}

\* C21: when the primitive or the engine call under BasePage.click, type,
\* goto, selectOption, uploadFile, refresh, goBack, goForward or executeScript
\* fails with error e, the method raises that same e: it does not return
\* normally and raises no other error; when nothing fails it returns.
C21_FailurePropagatesUnchanged ==
  (InMethod /\ Finished)
    => /\ Underlying # {} => (outcome = "threw" /\ thrown \in Underlying)
       /\ Underlying = {} => (outcome = "returned" /\ thrown = NoError)
       /\ (outcome = "threw") = (FailedCalls # {} /\ ~LastEvent.success)

\* BasePage.click raised the TargetClosedError of the third, last attempt of
\* safeClick after two attempts that timed out
C21_Witness ==
  /\ call.op = "BasePage.click" /\ Finished
  /\ outcome = "threw"
  /\ Len(errs) = 3
  /\ errs[1].name = "TimeoutError" /\ thrown.name = "TargetClosedError"

----------------------------------------------------------------------------
(* Properties of the configuration snapshot *)

Sections == {"browser", "test", "urls"}
\* the settings of a section of the base settings
SettingsOf(env, section) == DOMAIN BaseConfig(env)[section]
\* the override table of the tier names this setting
Named(env, section, name) ==
  /\ section \in DOMAIN EnvConfigs(env)
  /\ name \in DOMAIN EnvConfigs(env)[section]

\* C22 as stated: in every tier, each setting that the override table of the
\* tier does not name has its base value in the snapshot (browser.timeout and
\* browser.viewport under development; test.timeout, test.workers and
\* browser.timeout under production).
C22_UnnamedSettingsKeepBaseValue ==
  \A env \in Environs :
    configuration = LoadConfig(env)
      => \A section \in Sections : \A name \in SettingsOf(env, section) :
           ~Named(env, section, name)
             => Get(configuration, section, name) = BaseConfig(env)[section][name]

----------------------------------------------------------------------------
(* Properties of the attempts of the interaction primitives *)

\* C23: once an attempt of safeClick or safeType has succeeded, say attempt
\* k, the call is over: it has returned normally after exactly k attempts,
\* k-1 of them failed and each of those was followed by one backoff wait;
\* nothing happens after the log of the successful attempt and no error is
\* raised.
C23_FirstSuccessEndsTheCall ==
  (InPrimitive /\ Succeeded)
    => /\ Finished
       /\ outcome = "returned"
       /\ thrown = NoError
       /\ NumAttempts = NumFailures + 1
       /\ NumAttempts <= retries
       /\ NumWaits = NumAttempts - 1
       /\ LastEvent = SuccessLog(call.op, call.selector)
       /\ trace[Len(trace) - 1].kind = "engine" /\ trace[Len(trace) - 1].ok

\* the third attempt was the first to succeed
C23_Witness ==
  /\ InPrimitive /\ Finished /\ Succeeded
  /\ NumAttempts = 3 /\ NumFailures = 2
  /\ outcome = "returned"

----------------------------------------------------------------------------
(* Properties of one attempt of the safe click *)

InSafeClick == call.op \in {"PageUtils.safeClick", "TestHelpers.safeClick"}
IsCall(k, step) == trace[k].kind = "engine" /\ trace[k].step = step
Clicks == {k \in DOMAIN trace : IsCall(k, "click")}
Waits == {k \in DOMAIN trace : IsCall(k, "waitFor")}
\* the attempt an event of the trace belongs to
AttemptOf(k) == Cardinality({j \in 1..k : trace[j].kind = "attempt"})

\* C24 as stated: in every attempt of the safe click an explicit wait for the
\* element to be visible, bounded by the timeout option, precedes the click.
C24_ExplicitWaitInEveryAttempt ==
  InSafeClick =>
    \A k \in Clicks :
      \E j \in Waits : j < k /\ AttemptOf(j) = AttemptOf(k) /\ trace[j].ok

\* C24 amended: TestHelpers.safeClick begins every attempt with an explicit
\* wait for visibility bounded by its timeout, clicks only after that wait
\* (and the scroll) succeeded, and a failed wait is the failure of the
\* attempt.  PageUtils.safeClick makes no explicit wait: its attempt is the
\* click alone, bounded by the timeout.
C24_ExplicitWaitOnlyInTestHelpers ==
  /\ call.op = "TestHelpers.safeClick" =>
       /\ \A k \in DOMAIN trace :
            trace[k].kind = "attempt" =>
              /\ k + 1 \in Waits
              /\ trace[k + 1].args.timeout = {TestHelpersTimeout(call.options)}
       /\ \A k \in Clicks :
            /\ k - 2 \in Waits /\ trace[k - 2].ok
            /\ trace[k - 1].kind = "engine" /\ trace[k - 1].ok
            /\ AttemptOf(k - 2) = AttemptOf(k)
            /\ trace[k].args.timeout = {TestHelpersTimeout(call.options)}
       /\ \A k \in Waits :
            ~trace[k].ok =>
              /\ trace[k + 1].kind = "log"
              /\ trace[k + 1].level \in {"warn", "error"}
  /\ call.op = "PageUtils.safeClick" =>
       /\ Waits = {}
       /\ \A k \in DOMAIN trace :
            trace[k].kind = "engine" =>
              /\ k \in Clicks
              /\ trace[k - 1].kind = "attempt"
              /\ trace[k].args.timeout = {PageUtilsTimeout(call.options)}

\* TestHelpers.safeClick with timeout 5000: the wait of the first attempt
\* failed, the second attempt waited and clicked
C24_Witness ==
  /\ call.op = "TestHelpers.safeClick" /\ Finished
  /\ call.options.timeout = {5000}
  /\ \E k \in Waits : ~trace[k].ok /\ AttemptOf(k) = 1
  /\ \E k \in Clicks : trace[k].ok /\ AttemptOf(k) = 2


\* C25 as stated: with force=true passed to BasePage.click every engine click
\* of the safe click is made with force=true, and with force absent or false
\* every engine click is made without force.
C25_ForceReachesTheEngine ==
  call.op = "BasePage.click" =>
    \A k \in Clicks :
      IF call.options.force = {TRUE}
      THEN trace[k].args.force = {TRUE}
      ELSE trace[k].args.force \in {{}, {FALSE}}

----------------------------------------------------------------------------
(* Properties of the order of the login steps *)

\* the rank of a call of login in the fixed order
Rank(name) ==
  CASE name = "type-username" -> 1 [] name = "type-password" -> 2
    [] name = "isChecked-remember-me" -> 3 [] name = "click-remember-me" -> 4
    [] name = "click-login-button" -> 5
Did(name) == \E k \in DOMAIN trace : trace[k].name = name

\* C26: login types the username, types the password, handles the remember-me
\* checkbox and clicks the login button in this order, one call after the
\* other; the checkbox is looked at only when rememberMe is true and clicked
\* only when it was found unchecked; after a failed call no further call is
\* made, in particular not the click on the login button.
C26_LoginStepsInOrder ==
  (InLogin /\ Finished)
    => /\ \A j, k \in DOMAIN trace : j < k => Rank(trace[j].name) < Rank(trace[k].name)
       /\ \A k \in DOMAIN trace : k < Len(trace) => trace[k].ok
       /\ trace # <<>> /\ trace[1].name = "type-username"
       /\ (Len(trace) >= 2) => trace[2].name = "type-password"
       /\ Did("isChecked-remember-me") => call.rememberMe
       /\ Did("click-remember-me")
            => (call.rememberMe /\ ~call.checked /\ Did("isChecked-remember-me"))
       /\ LastEvent.ok
            => /\ LastEvent.name = "click-login-button"
               /\ Did("isChecked-remember-me") = call.rememberMe
               /\ Did("click-remember-me") = (call.rememberMe /\ ~call.checked)
       /\ Did("click-login-button") => \A k \in DOMAIN trace : k < Len(trace) => trace[k].ok

\* the click on the unchecked remember-me checkbox failed and the login button
\* was not clicked
C26_Witness ==
  /\ InLogin /\ Finished
  /\ call.rememberMe /\ ~call.checked
  /\ Did("click-remember-me") /\ ~LastEvent.ok
  /\ ~Did("click-login-button")

----------------------------------------------------------------------------
(* Properties of BrowserManager *)

InCloseAll == call.op = "BrowserManager.closeAll"
IsClose(ev) == ev.kind = "close"
CloseEvents == {j \in DOMAIN trace : IsClose(trace[j])}
CloseAttempted(kind, handle) ==
  \E j \in CloseEvents : trace[j].registry = kind /\ trace[j].handle = handle

\* C27: when closeAll has completed, close has been attempted on every handle
\* registered since the previous closeAll, also on a handle whose name was
\* registered again with another handle, and the three registries are empty
C27_EveryRegisteredHandleClosed ==
  (InCloseAll /\ Finished) =>
    /\ \A h \in registered : CloseAttempted(h.registry, h.handle)
    /\ registry = EmptyRegistry

CloseRank(kind) == CHOOSE r \in 1..3 : <<"pages", "contexts", "browsers">>[r] = kind

\* C28: closeAll closes leaf-first: every close of a page comes before every
\* close of a context, every close of a context before every close of a
\* browser, and when the close of a context (browser) is attempted every page
\* (page and context) in the registries has had its close attempted, also
\* when closes fail
C28_ClosesLeafFirst ==
  InCloseAll =>
    /\ \A j, k \in CloseEvents :
         j < k => CloseRank(trace[j].registry) <= CloseRank(trace[k].registry)
    /\ pc = "closing" =>
         \A k \in CloseEvents : \A kind \in Registries :
           CloseRank(kind) < CloseRank(trace[k].registry) =>
             \A e \in DOMAIN registry[kind] :
               \E j \in CloseEvents :
                 /\ j < k
                 /\ trace[j].registry = kind
                 /\ trace[j].handle = registry[kind][e].handle
C28_Witness ==
  /\ InCloseAll
  /\ pc = "closing"
  /\ \E j, k, l \in CloseEvents :
       /\ trace[j].registry = "pages" /\ ~trace[j].ok
       /\ trace[k].registry = "contexts"
       /\ trace[l].registry = "browsers"

----------------------------------------------------------------------------
(* Properties of batchRequests: starting the requests *)

HttpEvents == {j \in DOMAIN trace : trace[j].kind = "http"}

\* C29: batchRequests calls every thunk of its input exactly once, in input
\* order and before any result is awaited; a request that fails neither keeps
\* another one from being started nor cancels one that is in flight: every
\* request not yet completed can still complete, whatever has completed or
\* failed before, also after the batch has been rejected
C29_AllThunksStartedOnceNoneCancelled ==
  InBatch =>
    /\ Cardinality(HttpEvents) = call.n
    /\ Len(inflight.answers) = call.n
    /\ \A k \in 1..call.n :
         /\ trace[2 * k - 1].kind = "http"
         /\ trace[2 * k - 1].answer = inflight.answers[k]
    /\ \A j \in HttpEvents : j <= 2 * call.n
    /\ ~AllCompleted => ENABLED BatchComplete
C29_Witness ==
  /\ InBatch
  /\ call.n = MaxBatch
  /\ outcome = "threw"
  /\ AllCompleted
  /\ inflight.order[1] = MaxBatch
  /\ FailingThunks = {MaxBatch}
  /\ Cardinality(HttpEvents) = MaxBatch

----------------------------------------------------------------------------
(* Properties of the sample REST API *)

\* C30: after any sequence of POST /users, PUT /users/:id and
\* DELETE /users/:id requests the ids of the stored users are pairwise
\* distinct
C30_UserIdsDistinct ==
  \A j, k \in DOMAIN users : j # k => users[j].id # users[k].id

====
